---------------------------- MODULE Spec2Model ----------------------------
(***************************************************************************)
(* UBTool terminal manager (src/terminal_manager.py) and the terminal     *)
(* endpoints of src/app.py.                                                *)
(*                                                                         *)
(* Text is a sequence of character codes (Python's ord), so that the      *)
(* character classes of the regular expressions are integer ranges.       *)
(***************************************************************************)
EXTENDS Integers, Sequences, FiniteSets, TLC

\* ------------------------------------------------------------------------
\* Character codes used by the source
\* ------------------------------------------------------------------------
ESC == 27
LF == 10
SP == 32
LBRACKET == 91

InRange(c, lo, hi) == lo <= c /\ c <= hi

\* ------------------------------------------------------------------------
\* _clean_ansi_codes (terminal_manager.py 98-147)
\* ------------------------------------------------------------------------

\* how many characters of s, from position i on, lie in lo..hi (a greedy X*)
RECURSIVE SpanLen(_, _, _, _)
SpanLen(s, i, lo, hi) ==
    IF i <= Len(s) /\ InRange(s[i], lo, hi)
    THEN 1 + SpanLen(s, i + 1, lo, hi)
    ELSE 0

\* ANSI_ESCAPE_PATTERN = \x1B(?:[@-Z\\-_]|\[[0-?]*[ -/]*[@-~]) matched at
\* position i of s: the length of the match, 0 when there is none.  The three
\* classes of the second alternative are disjoint, so backtracking never
\* finds a match the greedy scan misses.
AnsiMatchLen(s, i) ==
    IF s[i] # ESC \/ i + 1 > Len(s) THEN 0
    ELSE LET c == s[i + 1] IN
         IF InRange(c, 64, 90) \/ InRange(c, 92, 95) THEN 2
         ELSE IF c = LBRACKET
              THEN LET p == SpanLen(s, i + 2, 48, 63)
                       q == SpanLen(s, i + 2 + p, 32, 47)
                       f == i + 2 + p + q
                   IN  IF f <= Len(s) /\ InRange(s[f], 64, 126)
                       THEN f - i + 1
                       ELSE 0
              ELSE 0

\* ANSI_ESCAPE_PATTERN.sub('', s), scanning from position i
RECURSIVE AnsiSub(_, _)
AnsiSub(s, i) ==
    IF i > Len(s) THEN << >>
    ELSE LET n == AnsiMatchLen(s, i) IN
         IF n > 0 THEN AnsiSub(s, i + n)
         ELSE << s[i] >> \o AnsiSub(s, i + 1)

MatchAt(s, i, seq) ==
    /\ i + Len(seq) - 1 <= Len(s)
    /\ \A k \in 1..Len(seq) : s[i + k - 1] = seq[k]

\* s.replace(seq, ''), scanning from position i
RECURSIVE ReplaceFrom(_, _, _)
ReplaceFrom(s, i, seq) ==
    IF i > Len(s) THEN << >>
    ELSE IF MatchAt(s, i, seq) THEN ReplaceFrom(s, i + Len(seq), seq)
    ELSE << s[i] >> \o ReplaceFrom(s, i + 1, seq)

\* problematic_sequences, in the order of the source list
problematic_sequences ==
    << << 27, 93, 48, 59 >>,                   \* ESC ] 0 ;
       << 7 >>,                                \* bell
       << 27, 91, 63, 50, 48, 48, 52, 104 >>,  \* ESC [ ? 2 0 0 4 h
       << 27, 91, 63, 50, 48, 48, 52, 108 >>,  \* ESC [ ? 2 0 0 4 l
       << 27, 91, 48, 49, 59, 51, 50, 109 >>,  \* ESC [ 0 1 ; 3 2 m
       << 27, 91, 48, 49, 59, 51, 52, 109 >>,  \* ESC [ 0 1 ; 3 4 m
       << 27, 91, 48, 48, 109 >>,              \* ESC [ 0 0 m
       << 27, 91, 48, 109 >>,                  \* ESC [ 0 m
       << 27, 91, 51, 52, 109 >>,              \* ESC [ 3 4 m
       << 27, 91, 51, 50, 109 >>,              \* ESC [ 3 2 m
       << 27, 91, 51, 49, 109 >>,              \* ESC [ 3 1 m
       << 27, 91, 51, 51, 109 >>,              \* ESC [ 3 3 m
       << 27, 91, 51, 53, 109 >>,              \* ESC [ 3 5 m
       << 27, 91, 51, 54, 109 >>,              \* ESC [ 3 6 m
       << 27, 91, 48, 49, 59, 51, 49, 109 >>,  \* ESC [ 0 1 ; 3 1 m
       << 27, 91, 48, 49, 59, 51, 51, 109 >>,  \* ESC [ 0 1 ; 3 3 m
       << 27, 91, 48, 49, 59, 51, 53, 109 >>,  \* ESC [ 0 1 ; 3 5 m
       << 27, 91, 48, 49, 59, 51, 54, 109 >>,  \* ESC [ 0 1 ; 3 6 m
       << 27, 91, 48, 49, 59, 51, 52, 109 >>,  \* ESC [ 0 1 ; 3 4 m
       << 27, 91, 48, 49, 59, 51, 50, 109 >>,  \* ESC [ 0 1 ; 3 2 m
       << 27, 91, 109 >>,                      \* ESC [ m
       << 27, 91, 75 >>,                       \* ESC [ K
       << 27, 91, 72 >>,                       \* ESC [ H
       << 27, 91, 50, 74 >>,                   \* ESC [ 2 J
       << 27, 91, 74 >>,                       \* ESC [ J
       << 27, 91, 48, 71 >> >>                 \* ESC [ 0 G

\* for seq in problematic_sequences: clean_text = clean_text.replace(seq, '')
RECURSIVE ReplaceAll(_, _)
ReplaceAll(s, k) ==
    IF k > Len(problematic_sequences) THEN s
    ELSE ReplaceAll(ReplaceFrom(s, 1, problematic_sequences[k]), k + 1)

\* the class [\x00-\x08\x0B\x0C\x0E-\x1F\x7F]
IsControl(c) ==
    \/ InRange(c, 0, 8)
    \/ c = 11
    \/ c = 12
    \/ InRange(c, 14, 31)
    \/ c = 127

StripControl(s) == SelectSeq(s, LAMBDA c : ~IsControl(c))

\* the characters str.strip() removes (str.isspace), among the codes below 256
IsSpace(c) ==
    \/ InRange(c, 9, 13)
    \/ InRange(c, 28, 32)
    \/ c = 133
    \/ c = 160

RECURSIVE LStrip(_)
LStrip(s) ==
    IF s # << >> /\ IsSpace(Head(s)) THEN LStrip(Tail(s)) ELSE s

RECURSIVE RStrip(_)
RStrip(s) ==
    IF s # << >> /\ IsSpace(s[Len(s)])
    THEN RStrip(SubSeq(s, 1, Len(s) - 1))
    ELSE s

\* str.strip()
Strip(s) == RStrip(LStrip(s))

\* re.sub(r' +', ' ', s)
RECURSIVE CollapseSpaces(_)
CollapseSpaces(s) ==
    IF s = << >> THEN << >>
    ELSE IF Head(s) = SP /\ Len(s) > 1 /\ s[2] = SP THEN CollapseSpaces(Tail(s))
    ELSE << Head(s) >> \o CollapseSpaces(Tail(s))

\* s.split('\n'): the sequence of lines (always at least one)
RECURSIVE SplitLines(_)
SplitLines(s) ==
    IF \A i \in 1..Len(s) : s[i] # LF THEN << s >>
    ELSE LET k == CHOOSE i \in 1..Len(s) :
                      s[i] = LF /\ \A j \in 1..(i - 1) : s[j] # LF
         IN  << SubSeq(s, 1, k - 1) >> \o SplitLines(SubSeq(s, k + 1, Len(s)))

\* '\n'.join(lines)
RECURSIVE JoinLines(_)
JoinLines(lines) ==
    IF Len(lines) = 1 THEN lines[1]
    ELSE lines[1] \o << LF >> \o JoinLines(Tail(lines))

\* cleaned_line = re.sub(r' +', ' ', line.strip())
CleanLine(line) == CollapseSpaces(Strip(line))

CleanLines(s) ==
    LET lines == SplitLines(s)
    IN  JoinLines([i \in 1..Len(lines) |-> CleanLine(lines[i])])

\* _clean_ansi_codes(text)
CleanAnsiCodes(text) == CleanLines(StripControl(ReplaceAll(AnsiSub(text, 1), 1)))


\* ------------------------------------------------------------------------
\* Bounds and input sets
\* ------------------------------------------------------------------------

\* TerminalSession objects ever constructed (create_session calls that get
\* as far as the constructor)
MaxObj == 2
\* ticks of int(time.time())
MaxClock == 1
\* data chunks held in one output buffer (the pump reads no more data while
\* the buffer holds that many; a marker is appended regardless)
MaxBuf == 1
\* successful writes to one process
MaxWrites == 1

\* sessions created in the specifications that follow one session at a time
MaxSolo == 1
\* entries ever inserted into one callbacks dict
MaxEntries == 2
\* pieces (plain characters, escape sequences) of a chunk to be sanitized
MaxPieces == 3

\* concurrent callers of the registry and of the sessions
Threads == {"t1", "t2"}
Objs == 1..MaxObj

None == "None"
NoId == << >>
NoObj == 0

\* the device ids an ADB server reports / a caller names
Devices == {"emulator-5555"}
\* adb_manager.get_devices(): the ids of the devices, in order
DeviceLists == {<< >>, << "emulator-5555" >>}

\* f"session_{self.session_counter}_{int(time.time())}": the text is
\* determined by, and determines, the pair (counter, time)
MakeSessionId(counter, time) == << counter, time >>
\* an id create_session never issues (the counter is at least 1 by then)
BogusId == MakeSessionId(0, 0)

\* the ids under which callbacks are registered
CallbackIds == {"keep", "other"}
\* a deleted entry of the callbacks dict
NoCallback == "deleted"
\* the (rows, cols) callers ask for; the size of a pty never resized
WinSizes == {<< 24, 80 >>, << 40, 120 >>}
NoSize == << >>

\* caller data for write_input: "", "a", "a\n", "\n"
WriteData == {<< >>, << 97 >>, << 97, LF >>, << LF >>}
\* what a read of the pty returns: "a", " " (only white space)
ReadChunks == {<< 97 >>, << SP >>}

\* plain text a chunk is made of: "a", " ", "\n"
TextPieces == {<< 97 >>, << SP >>, << LF >>}
\* the sequences a chunk is made of: the listed ESC [ m, ESC [ ? 2 0 0 4 h,
\* the window-title prefix ESC ] 0 ; and the bell, and a CSI sequence that is
\* not listed, ESC [ 1 ; 5 H
SequencePieces ==
    {<< 27, 91, 109 >>,
     << 27, 91, 63, 50, 48, 48, 52, 104 >>,
     << 27, 93, 48, 59 >>,
     << 7 >>,
     << 27, 91, 49, 59, 53, 72 >>}
\* the chunks to be sanitized, as sequences of pieces
RECURSIVE PiecesUpTo(_)
PiecesUpTo(n) ==
    IF n = 0 THEN {<< >>}
    ELSE PiecesUpTo(n - 1) \cup
         {Append(ps, p) : ps \in {q \in PiecesUpTo(n - 1) : Len(q) = n - 1},
                          p \in TextPieces \cup SequencePieces}
\* the characters a chunk with control characters is made of: "a", "\n",
\* tab, carriage return, a lone ESC, NUL and the last C0 character
ControlPieces == {<< 97 >>, << LF >>, << 9 >>, << 13 >>, << ESC >>, << 0 >>, << 31 >>}
\* the chunks with control characters, as sequences of pieces
RECURSIVE ControlChunks(_)
ControlChunks(n) ==
    IF n = 0 THEN {<< >>}
    ELSE ControlChunks(n - 1) \cup
         {Append(ps, p) : ps \in {q \in ControlChunks(n - 1) : Len(q) = n - 1},
                          p \in ControlPieces}
\* _clean_ansi_codes has not returned
NotCleaned == << -1 >>

\* "\r\n[Proceso terminado]\r\n"
MarkerTerminated ==
    << 13, 10, 91, 80, 114, 111, 99, 101, 115, 111, 32, 116, 101, 114, 109,
       105, 110, 97, 100, 111, 93, 13, 10 >>
\* "\r\n[Conexión cerrada]\r\n"
MarkerClosed ==
    << 13, 10, 91, 67, 111, 110, 101, 120, 105, 243, 110, 32, 99, 101, 114,
       114, 97, 100, 97, 93, 13, 10 >>

\* ------------------------------------------------------------------------
\* State
\* ------------------------------------------------------------------------
VARIABLES
    sessions,         \* TerminalManager.sessions: session id -> object
    session_counter,  \* TerminalManager.session_counter
    nobj,             \* TerminalSession objects constructed so far
    session_id,       \* TerminalSession.session_id, per object
    device_id,        \* TerminalSession.device_id
    process,          \* TerminalSession.process: None or the pty handle
    active,           \* TerminalSession.active
    output_buffer,    \* TerminalSession.output_buffer: sequence of chunks
    proc,             \* the spawned child: "none", "alive", "dead"
    stubborn,         \* the child ignores SIGHUP/SIGINT (terminate())
    written,          \* what the child received on its input, per write
    signals,          \* signals sent to the child: "term", "kill"
    pump,             \* position of the _monitor_output thread
    pc,               \* position of each caller
    loc,              \* locals of each caller's running operation
    res,              \* result of each caller's last finished operation
    clock,            \* int(time.time())
    lastDrain,        \* per caller: its last drain, while nothing was appended
    polled,           \* per buffered chunk: a poll's get_buffer has returned it
    callbacks,        \* TerminalSession.callbacks: the entries of the dict
    delivered,        \* per callback id: what its callable was called with
    notify,           \* the iterator of the loop of _handle_output
    winsize,          \* the window size of the pty
    raw_text,         \* _clean_ansi_codes: its argument, piece by piece
    clean_text        \* _clean_ansi_codes: what it returns

regVars == << sessions, session_counter >>
sessVars == << nobj, session_id, device_id, process, active, output_buffer >>
procVars == << proc, stubborn, written, signals >>
pumpVars == << pump >>
thrVars == << pc, loc, res >>
envVars == << clock >>
cbVars == << callbacks, delivered, notify >>
ttyVars == << winsize >>
sanVars == << raw_text, clean_text >>
vars == << regVars, sessVars, procVars, pumpVars, thrVars, envVars, lastDrain,
          polled, cbVars, ttyVars, sanVars >>

NoLoc == [id |-> NoId, obj |-> NoObj, dev |-> None, tmp |-> 0,
          data |-> << >>, out |-> << >>, size |-> NoSize,
          caller |-> "none", pos |-> 0, todo |-> << >>, acc |-> {},
          was |-> {}]
NoRes == [op |-> "none", id |-> NoId, obj |-> NoObj, ok |-> FALSE,
          exc |-> FALSE, out |-> << >>, act |-> FALSE, summary |-> {}]
NoDrain == [obj |-> NoObj, out |-> << >>]
\* what a callable has been called with: the (session id, chunk) pairs, with
\* the length the buffer had when it was registered and whether the loop of
\* _handle_output was under way then
NoDelivery == [since |-> 0, mid |-> FALSE, got |-> << >>]
\* no loop over the callbacks is under way
NoNotify == [pos |-> 0, used |-> 0, chunk |-> << >>, ret |-> "none",
             raised |-> 0]

\* TerminalManager.__init__ (216-219); no TerminalSession exists yet
InitManager ==
    /\ sessions = [i \in {} |-> NoObj]
    /\ session_counter = 0
    /\ nobj = 0
    /\ session_id = [o \in Objs |-> NoId]
    /\ device_id = [o \in Objs |-> None]
    /\ process = [o \in Objs |-> None]
    /\ active = [o \in Objs |-> FALSE]
    /\ output_buffer = [o \in Objs |-> << >>]
    /\ proc = [o \in Objs |-> "none"]
    /\ stubborn = [o \in Objs |-> FALSE]
    /\ written = [o \in Objs |-> << >>]
    /\ signals = [o \in Objs |-> {}]
    /\ pump = [o \in Objs |-> "off"]
    /\ pc = [t \in Threads |-> "idle"]
    /\ loc = [t \in Threads |-> NoLoc]
    /\ res = [t \in Threads |-> NoRes]
    /\ clock = 0
    /\ lastDrain = [t \in Threads |-> NoDrain]
    /\ polled = [o \in Objs |-> << >>]
    /\ callbacks = [o \in Objs |-> << >>]
    /\ delivered = [o \in Objs |-> [cb \in CallbackIds |-> NoDelivery]]
    /\ notify = [o \in Objs |-> NoNotify]
    /\ winsize = [o \in Objs |-> NoSize]

\* no chunk is being sanitized
Init ==
    /\ InitManager
    /\ raw_text = << >>
    /\ clean_text = NotCleaned

\* an operation whose locals are l returns r (r.exc: it raises). Called by
\* the caller itself, it leaves the caller idle with its result. Called from
\* the loop of cleanup_inactive_sessions (292-293) or close_all_sessions
\* (297-298), it hands back to the loop, which drops the result, or takes
\* the loop down with it if it raises
ReturnFrom(t, l, r) ==
    IF l.caller = "none"
    THEN /\ pc' = [pc EXCEPT ![t] = "idle"]
         /\ loc' = [loc EXCEPT ![t] = NoLoc]
         /\ res' = [res EXCEPT ![t] = r]
    ELSE IF r.exc
    THEN /\ pc' = [pc EXCEPT ![t] = "idle"]
         /\ loc' = [loc EXCEPT ![t] = NoLoc]
         /\ res' = [res EXCEPT ![t] = [NoRes EXCEPT !.op = l.caller, !.exc = TRUE]]
    ELSE /\ pc' = [pc EXCEPT ![t] = "cu_next"]
         /\ loc' = [loc EXCEPT ![t] = [l EXCEPT !.id = NoId, !.obj = NoObj]]
         /\ res' = res

\* a caller's operation returns: locals dropped
Return(t, r) == ReturnFrom(t, loc[t], r)

\* write_input and resize as they would be without their handlers
EscapesAlways(r) == r.exc

\* the error raised inside an operation leaves it, to its caller:
\* write_input and resize catch theirs and return False (165-168, 176-179)
Escapes(r) == r.exc /\ r.op \notin {"write", "resize"}

Goto(t, label) == pc' = [pc EXCEPT ![t] = label]

\* ------------------------------------------------------------------------
\* TerminalManager.get_session (246-248), get_active_sessions (272-283)
\* ------------------------------------------------------------------------
GetSession(id) == IF id \in DOMAIN sessions THEN sessions[id] ELSE NoObj

GetActiveSessions == {id \in DOMAIN sessions : active[sessions[id]]}

\* the ids callers pass to the registry: those of the sessions constructed so
\* far (registered, closed or never registered) and one that never existed
KnownIds == {session_id[o] : o \in 1..nobj} \cup {BogusId}

\* ------------------------------------------------------------------------
\* TerminalManager.create_session (221-244) with TerminalSession.__init__
\* (23-30) and TerminalSession.start (32-46)
\* ------------------------------------------------------------------------

\* callers inside create_session that have not yet constructed their session
PreConstruct == {"cr_load", "cr_store", "cr_id", "cr_spawn"}

\* create_session as it would be if it took the next counter value before
\* it asks for the locator and the device
CreateBeginCounting(t, n) ==
    /\ pc[t] = "idle"
    /\ nobj + Cardinality({u \in Threads : pc[u] \in PreConstruct}) < n
    /\ \E avail \in BOOLEAN, arg \in Devices \cup {None}, devs \in DeviceLists :
         IF ~avail \/ (arg = None /\ devs = << >>)
         THEN /\ Return(t, [NoRes EXCEPT !.op = "create"])
              /\ session_counter' = session_counter + 1
              /\ UNCHANGED sessions
         ELSE /\ Goto(t, "cr_load")
              /\ loc' = [loc EXCEPT ![t] =
                           [NoLoc EXCEPT !.dev = IF arg # None THEN arg ELSE devs[1]]]
              /\ res' = [res EXCEPT ![t] = NoRes]
              /\ UNCHANGED regVars
    /\ UNCHANGED << sessVars, procVars, pumpVars, envVars, cbVars, ttyVars, sanVars, lastDrain, polled >>

\* 223-231: is_available(), get_devices(); no shared state is touched.
\* At most n sessions are ever constructed.
CreateBeginUpTo(t, n) ==
    /\ pc[t] = "idle"
    /\ nobj + Cardinality({u \in Threads : pc[u] \in PreConstruct}) < n
    /\ \E avail \in BOOLEAN, arg \in Devices \cup {None}, devs \in DeviceLists :
         IF ~avail \/ (arg = None /\ devs = << >>)
         THEN Return(t, [NoRes EXCEPT !.op = "create"])
         ELSE /\ Goto(t, "cr_load")
              /\ loc' = [loc EXCEPT ![t] =
                           [NoLoc EXCEPT !.dev = IF arg # None THEN arg ELSE devs[1]]]
              /\ res' = [res EXCEPT ![t] = NoRes]
    /\ UNCHANGED << regVars, sessVars, procVars, pumpVars, envVars, cbVars, ttyVars, sanVars, lastDrain, polled >>

CreateBegin(t) == CreateBeginUpTo(t, MaxObj)

CreateSolo(t) == CreateBeginUpTo(t, MaxSolo)

\* 234: self.session_counter += 1 reads the attribute ...
CreateLoad(t) ==
    /\ pc[t] = "cr_load"
    /\ loc' = [loc EXCEPT ![t].tmp = session_counter]
    /\ Goto(t, "cr_store")
    /\ UNCHANGED << regVars, sessVars, procVars, pumpVars, envVars, cbVars, ttyVars, sanVars, lastDrain, polled, res >>

\* ... and stores the sum
CreateStore(t) ==
    /\ pc[t] = "cr_store"
    /\ session_counter' = loc[t].tmp + 1
    /\ Goto(t, "cr_id")
    /\ UNCHANGED << sessions, sessVars, procVars, pumpVars, envVars, cbVars, ttyVars, sanVars, lastDrain, polled,
                    loc, res >>

\* 235: the id is built from the counter as it is now, and the clock
NewSessionId == MakeSessionId(session_counter, clock)

CreateId(t) ==
    /\ pc[t] = "cr_id"
    /\ loc' = [loc EXCEPT ![t].id = NewSessionId]
    /\ Goto(t, "cr_spawn")
    /\ UNCHANGED << regVars, sessVars, procVars, pumpVars, envVars, cbVars, ttyVars, sanVars, lastDrain, polled, res >>

\* self.sessions[session_id] = session
Register(id, o) ==
    [i \in DOMAIN sessions \cup {id} |-> IF i = id THEN o ELSE sessions[i]]

\* create_session as it would be if it registered the Session when it
\* constructs it, before start() has returned
CreateSpawnRegistering(t) ==
    /\ pc[t] = "cr_spawn"
    /\ LET o == nobj + 1 IN
       /\ nobj' = o
       /\ session_id' = [session_id EXCEPT ![o] = loc[t].id]
       /\ device_id' = [device_id EXCEPT ![o] = loc[t].dev]
       /\ sessions' = Register(loc[t].id, o)
       /\ \E ok \in BOOLEAN :
            IF ok
            THEN /\ process' = [process EXCEPT ![o] = "pty"]
                 /\ proc' = [proc EXCEPT ![o] = "alive"]
                 /\ loc' = [loc EXCEPT ![t].obj = o]
                 /\ Goto(t, "cr_active")
                 /\ res' = res
            ELSE /\ Return(t, [NoRes EXCEPT !.op = "create", !.obj = o])
                 /\ UNCHANGED << process, proc >>
    /\ UNCHANGED << session_counter, active, output_buffer, stubborn, written,
                    signals, pumpVars, envVars, cbVars, ttyVars, sanVars, lastDrain, polled >>

\* create_session as it would be if it kept in the map the Session whose
\* start() has failed
CreateSpawnKeepsFailed(t) ==
    /\ pc[t] = "cr_spawn"
    /\ LET o == nobj + 1 IN
       /\ nobj' = o
       /\ session_id' = [session_id EXCEPT ![o] = loc[t].id]
       /\ device_id' = [device_id EXCEPT ![o] = loc[t].dev]
       /\ \E ok \in BOOLEAN :
            IF ok
            THEN /\ process' = [process EXCEPT ![o] = "pty"]
                 /\ proc' = [proc EXCEPT ![o] = "alive"]
                 /\ loc' = [loc EXCEPT ![t].obj = o]
                 /\ Goto(t, "cr_active")
                 /\ res' = res
                 /\ sessions' = sessions
            ELSE /\ Return(t, [NoRes EXCEPT !.op = "create", !.obj = o])
                 /\ sessions' = Register(loc[t].id, o)
                 /\ UNCHANGED << process, proc >>
    /\ UNCHANGED << session_counter, active, output_buffer, stubborn, written,
                    signals, pumpVars, envVars, cbVars, ttyVars, sanVars, lastDrain, polled >>

\* 238 and 36-37: the constructor, then start() spawns the child; a spawn
\* error makes start() return False (44-46) and create_session None (244)
CreateSpawn(t) ==
    /\ pc[t] = "cr_spawn"
    /\ LET o == nobj + 1 IN
       /\ nobj' = o
       /\ session_id' = [session_id EXCEPT ![o] = loc[t].id]
       /\ device_id' = [device_id EXCEPT ![o] = loc[t].dev]
       /\ \E ok \in BOOLEAN :
            IF ok
            THEN /\ process' = [process EXCEPT ![o] = "pty"]
                 /\ proc' = [proc EXCEPT ![o] = "alive"]
                 /\ loc' = [loc EXCEPT ![t].obj = o]
                 /\ Goto(t, "cr_active")
                 /\ res' = res
            ELSE /\ Return(t, [NoRes EXCEPT !.op = "create", !.obj = o])
                 /\ UNCHANGED << process, proc >>
    /\ UNCHANGED << regVars, active, output_buffer, stubborn, written, signals,
                    pumpVars, envVars, cbVars, ttyVars, sanVars, lastDrain, polled >>

\* 38-43: active = True, the monitor thread starts, start() returns True
CreateActive(t) ==
    /\ pc[t] = "cr_active"
    /\ active' = [active EXCEPT ![loc[t].obj] = TRUE]
    /\ pump' = [pump EXCEPT ![loc[t].obj] = "loop"]
    /\ Goto(t, "cr_insert")
    /\ UNCHANGED << regVars, nobj, session_id, device_id, process, output_buffer,
                    procVars, envVars, cbVars, ttyVars, sanVars, lastDrain, polled, loc, res >>

\* 240-242: start() returned True: register and return the id
CreateInsert(t) ==
    /\ pc[t] = "cr_insert"
    /\ sessions' = Register(loc[t].id, loc[t].obj)
    /\ Return(t, [NoRes EXCEPT !.op = "create", !.id = loc[t].id,
                               !.obj = loc[t].obj, !.ok = TRUE])
    /\ UNCHANGED << session_counter, sessVars, procVars, pumpVars, envVars, cbVars, ttyVars, sanVars,
                    lastDrain, polled >>

\* ------------------------------------------------------------------------
\* The environment: the child process and the clock
\* ------------------------------------------------------------------------

\* the child exits or is killed out-of-band
ProcDies(o) ==
    /\ proc[o] = "alive"
    /\ proc' = [proc EXCEPT ![o] = "dead"]
    /\ UNCHANGED << regVars, sessVars, stubborn, written, signals, pumpVars,
                    thrVars, envVars, cbVars, ttyVars, sanVars, lastDrain, polled >>

\* the child starts to ignore SIGHUP and SIGINT
ProcIgnoresHangup(o) ==
    /\ proc[o] = "alive"
    /\ ~stubborn[o]
    /\ stubborn' = [stubborn EXCEPT ![o] = TRUE]
    /\ UNCHANGED << regVars, sessVars, proc, written, signals, pumpVars,
                    thrVars, envVars, cbVars, ttyVars, sanVars, lastDrain, polled >>

\* a second passes
Tick ==
    /\ clock < MaxClock
    /\ clock' = clock + 1
    /\ UNCHANGED << regVars, sessVars, procVars, pumpVars, thrVars,
                    lastDrain, polled, cbVars, ttyVars, sanVars >>

\* ------------------------------------------------------------------------
\* TerminalSession._monitor_output (48-83), _handle_output (85-96)
\* ------------------------------------------------------------------------

\* 88: clean_output = self._clean_ansi_codes(output), tabulated over what
\* the pump can pass to it
PumpOutputs == ReadChunks \cup {MarkerTerminated, MarkerClosed}
CleanOutput == [output \in PumpOutputs |-> CleanAnsiCodes(output)]

\* _handle_output as it would be if it put the new chunk first
HandleOutputFirst(o, output) == << CleanOutput[output] >> \o output_buffer[o]

\* 88-89: the sanitized chunk is appended to the buffer
HandleOutput(o, output) == Append(output_buffer[o], CleanOutput[output])

\* callers whose last drain was of o see it invalidated by an append to o;
\* no poll has returned the new chunk
Appended(o) ==
    /\ lastDrain' = [t \in Threads |->
                       IF lastDrain[t].obj = o THEN NoDrain ELSE lastDrain[t]]
    /\ polled' = [polled EXCEPT ![o] = Append(@, FALSE)]

\* the positions of the live entries of self.callbacks, in the order of
\* the dict (insertion order; a deleted entry keeps its place until the
\* table is rebuilt, which MaxEntries entries never cause)
Live(o) == {k \in 1..Len(callbacks[o]) : callbacks[o][k] # NoCallback}
NextLive(o, pos) == {k \in Live(o) : k >= pos}
Min(S) == CHOOSE k \in S : \A j \in S : k <= j

\* 94: callback(self.session_id, clean_output); what the callable raises
\* is printed and dropped (95-96)
Call(o, k, chunk) ==
    [delivered EXCEPT ![o][callbacks[o][k]].got =
        Append(@, << session_id[o], chunk >>)]

\* 88-92: the chunk is sanitized and buffered, and the loop over
\* self.callbacks.values() begins: with no callback it is over at once;
\* the pump goes on at next once the loop is over
HandleOutputThen(o, output, next) ==
    /\ output_buffer' = [output_buffer EXCEPT ![o] = HandleOutput(o, output)]
    /\ Appended(o)
    /\ UNCHANGED << callbacks, delivered >>
    /\ IF Live(o) = {}
       THEN /\ pump' = [pump EXCEPT ![o] = next]
            /\ notify' = notify
       ELSE /\ pump' = [pump EXCEPT ![o] = "notify"]
            /\ notify' = [notify EXCEPT ![o] =
                            [pos |-> 1,
                             used |-> Cardinality(Live(o)),
                             chunk |-> CleanOutput[output],
                             ret |-> next,
                             raised |-> 0]]

\* the loop of _handle_output as it would be if the try were around it: a
\* callable that raises ends the loop
PumpNotifyFragile(o) ==
    /\ pump[o] = "notify"
    /\ IF Cardinality(Live(o)) # notify[o].used \/ NextLive(o, notify[o].pos) = {}
       THEN /\ pump' = [pump EXCEPT ![o] = notify[o].ret]
            /\ notify' = [notify EXCEPT ![o] = NoNotify]
            /\ delivered' = delivered
       ELSE LET k == Min(NextLive(o, notify[o].pos)) IN
            /\ delivered' = Call(o, k, notify[o].chunk)
            /\ \E raises \in BOOLEAN :
                 IF raises
                 THEN /\ pump' = [pump EXCEPT ![o] = notify[o].ret]
                      /\ notify' = [notify EXCEPT ![o] = NoNotify]
                 ELSE /\ pump' = pump
                      /\ notify' = [notify EXCEPT ![o].pos = k + 1]
    /\ UNCHANGED << regVars, sessVars, procVars, thrVars, envVars, lastDrain,
                    polled, callbacks, ttyVars, sanVars >>

\* 92-96: the next value of the iterator, and the call of the callable,
\* which returns or raises (what it raises is printed and dropped at
\* 95-96; `raised` keeps the place of the first one that did). A dict
\* whose size has changed since the loop began makes the iterator raise
\* RuntimeError, which leaves _handle_output: from 63 it is dropped at
\* 68-70, from 66 and 74 it reaches 79-81; either way the pump goes on
\* where it would have
PumpNotify(o) ==
    /\ pump[o] = "notify"
    /\ IF Cardinality(Live(o)) # notify[o].used \/ NextLive(o, notify[o].pos) = {}
       THEN /\ pump' = [pump EXCEPT ![o] = notify[o].ret]
            /\ notify' = [notify EXCEPT ![o] = NoNotify]
            /\ delivered' = delivered
       ELSE LET k == Min(NextLive(o, notify[o].pos)) IN
            /\ delivered' = Call(o, k, notify[o].chunk)
            /\ \E raises \in BOOLEAN :
                 notify' = [notify EXCEPT
                              ![o].pos = k + 1,
                              ![o].raised = IF raises /\ @ = 0 THEN k ELSE @]
            /\ pump' = pump
    /\ UNCHANGED << regVars, sessVars, procVars, thrVars, envVars, lastDrain,
                    polled, callbacks, ttyVars, sanVars >>

\* 50: while self.active and self.process; 83 when the loop is left
PumpLoop(o) ==
    /\ pump[o] = "loop"
    /\ IF active[o] /\ process[o] # None
       THEN /\ pump' = [pump EXCEPT ![o] = "alive"]
            /\ active' = active
       ELSE /\ pump' = [pump EXCEPT ![o] = "done"]
            /\ active' = [active EXCEPT ![o] = FALSE]
    /\ UNCHANGED << regVars, nobj, session_id, device_id, process, output_buffer,
                    procVars, thrVars, envVars, cbVars, ttyVars, sanVars, lastDrain, polled >>

\* 52: self.process.isalive(); a released handle (None) raises
\* AttributeError, which reaches 79-81 (break). A dead child: 73,
\* active = False.
PumpIsAlive(o) ==
    /\ pump[o] = "alive"
    /\ IF process[o] = None
       THEN /\ pump' = [pump EXCEPT ![o] = "exit"]
            /\ active' = active
       ELSE IF proc[o] = "alive"
       THEN /\ pump' = [pump EXCEPT ![o] = "read"]
            /\ active' = active
       ELSE /\ pump' = [pump EXCEPT ![o] = "closed"]
            /\ active' = [active EXCEPT ![o] = FALSE]
    /\ UNCHANGED << regVars, nobj, session_id, device_id, process, output_buffer,
                    procVars, thrVars, envVars, cbVars, ttyVars, sanVars, lastDrain, polled >>

\* 52, 79-81: isalive() itself raises (PtyProcessError): the error is
\* printed and the loop is left
PumpIsAliveRaises(o) ==
    /\ pump[o] = "alive"
    /\ process[o] # None
    /\ pump' = [pump EXCEPT ![o] = "exit"]
    /\ UNCHANGED << regVars, sessVars, procVars, thrVars, envVars, cbVars, ttyVars, sanVars, lastDrain, polled >>

\* 62: if output and output.strip()
Worthy(output) == output # << >> /\ Strip(output) # << >>

\* the read as it would be if a pump that gets to read marked its session
\* active again
PumpReadCallRevives(o) ==
    /\ pump[o] = "read"
    /\ pump' = [pump EXCEPT ![o] = IF process[o] = None THEN "loop" ELSE "reading"]
    /\ active' = [active EXCEPT ![o] = process[o] # None]
    /\ UNCHANGED << regVars, nobj, session_id, device_id, process, output_buffer,
                    procVars, thrVars, envVars, cbVars, ttyVars, sanVars, lastDrain, polled >>

\* 54-60: self.process is fetched for the read. A released handle (None)
\* raises AttributeError, swallowed at 68-70; otherwise the read is under way
\* on the pty the pump now holds
PumpReadCall(o) ==
    /\ pump[o] = "read"
    /\ pump' = [pump EXCEPT ![o] = IF process[o] = None THEN "loop" ELSE "reading"]
    /\ UNCHANGED << regVars, sessVars, procVars, thrVars, envVars, cbVars, ttyVars, sanVars, lastDrain, polled >>

\* 57-63, 77: the read returns data
PumpReadData(o) ==
    /\ pump[o] = "reading"
    /\ Len(output_buffer[o]) < MaxBuf
    /\ \E output \in ReadChunks :
         IF Worthy(output)
         THEN HandleOutputThen(o, output, "loop")
         ELSE /\ pump' = [pump EXCEPT ![o] = "loop"]
              /\ UNCHANGED << output_buffer, lastDrain, polled, cbVars >>
    /\ UNCHANGED << regVars, nobj, session_id, device_id, process, active,
                    procVars, thrVars, envVars, ttyVars, sanVars >>

\* 64-67: the read raises PtyProcessError or EOFError (the child is gone):
\* the marker is buffered and the loop is left
PumpReadEof(o) ==
    /\ pump[o] = "reading"
    /\ proc[o] = "dead"
    /\ HandleOutputThen(o, MarkerTerminated, "exit")
    /\ UNCHANGED << regVars, nobj, session_id, device_id, process, active,
                    procVars, thrVars, envVars, ttyVars, sanVars >>

\* 68-70, 77: any other error of the read is swallowed and the loop goes on
PumpReadError(o) ==
    /\ pump[o] = "reading"
    /\ pump' = [pump EXCEPT ![o] = "loop"]
    /\ UNCHANGED << regVars, sessVars, procVars, thrVars, envVars, cbVars, ttyVars, sanVars, lastDrain, polled >>

\* 74-75: the "connection closed" marker, after active was set False
PumpClosedMarker(o) ==
    /\ pump[o] = "closed"
    /\ HandleOutputThen(o, MarkerClosed, "exit")
    /\ UNCHANGED << regVars, nobj, session_id, device_id, process, active,
                    procVars, thrVars, envVars, ttyVars, sanVars >>

\* 181-183: self.callbacks[callback_id] = callback. A key that is present
\* keeps its entry and gets the new callable; a new key takes a new entry
AddCallback(t, o, cb) ==
    /\ pc[t] = "idle"
    /\ IF \E k \in Live(o) : callbacks[o][k] = cb
       THEN callbacks' = callbacks
       ELSE /\ Len(callbacks[o]) < MaxEntries
            /\ callbacks' = [callbacks EXCEPT ![o] = Append(@, cb)]
    /\ delivered' = [delivered EXCEPT ![o][cb] =
                       [since |-> Len(output_buffer[o]),
                        mid |-> pump[o] = "notify",
                        got |-> << >>]]
    /\ UNCHANGED << regVars, sessVars, procVars, pumpVars, thrVars, envVars,
                    lastDrain, polled, notify, ttyVars, sanVars >>

\* 185-188: if callback_id in self.callbacks: del self.callbacks[callback_id]
RemoveCallback(t, o, cb) ==
    /\ pc[t] = "idle"
    /\ \E k \in Live(o) :
         /\ callbacks[o][k] = cb
         /\ callbacks' = [callbacks EXCEPT ![o][k] = NoCallback]
    /\ UNCHANGED << regVars, sessVars, procVars, pumpVars, thrVars, envVars,
                    lastDrain, polled, delivered, notify, ttyVars, sanVars >>

\* 83: self.active = False once the loop is left by break
PumpExit(o) ==
    /\ pump[o] = "exit"
    /\ active' = [active EXCEPT ![o] = FALSE]
    /\ pump' = [pump EXCEPT ![o] = "done"]
    /\ UNCHANGED << regVars, nobj, session_id, device_id, process, output_buffer,
                    procVars, thrVars, envVars, cbVars, ttyVars, sanVars, lastDrain, polled >>

\* ------------------------------------------------------------------------
\* TerminalManager.close_session (264-270), TerminalSession.close (198-210)
\* ------------------------------------------------------------------------

\* close_session as it would be if an unknown id made it raise KeyError
CloseSessionRaising(t, id, l) ==
    LET o == GetSession(id) IN
    IF o = NoObj
    THEN ReturnFrom(t, l, [NoRes EXCEPT !.op = "close", !.id = id, !.exc = TRUE])
    ELSE /\ Goto(t, "cl_active")
         /\ loc' = [loc EXCEPT ![t] = [l EXCEPT !.id = id, !.obj = o]]
         /\ res' = [res EXCEPT ![t] = NoRes]

\* 266-267: close_session(id), called with locals l: the lookup; an unknown
\* id returns at once
CloseSession(t, id, l) ==
    LET o == GetSession(id) IN
    IF o = NoObj
    THEN ReturnFrom(t, l, [NoRes EXCEPT !.op = "close", !.id = id])
    ELSE /\ Goto(t, "cl_active")
         /\ loc' = [loc EXCEPT ![t] = [l EXCEPT !.id = id, !.obj = o]]
         /\ res' = [res EXCEPT ![t] = NoRes]

\* close_session called by a caller
CloseBegin(t) ==
    /\ pc[t] = "idle"
    /\ \E id \in KnownIds : CloseSession(t, id, NoLoc)
    /\ UNCHANGED << regVars, sessVars, procVars, pumpVars, envVars, cbVars, ttyVars, sanVars, lastDrain, polled >>

\* close() as it would be if it cleared the flag of every session
CloseActiveAll(t) ==
    /\ pc[t] = "cl_active"
    /\ active' = [o \in Objs |-> FALSE]
    /\ Goto(t, "cl_term")
    /\ UNCHANGED << regVars, nobj, session_id, device_id, process, output_buffer,
                    procVars, pumpVars, envVars, cbVars, ttyVars, sanVars, lastDrain, polled, loc, res >>

\* 200: self.active = False
CloseActive(t) ==
    /\ pc[t] = "cl_active"
    /\ active' = [active EXCEPT ![loc[t].obj] = FALSE]
    /\ Goto(t, "cl_term")
    /\ UNCHANGED << regVars, nobj, session_id, device_id, process, output_buffer,
                    procVars, pumpVars, envVars, cbVars, ttyVars, sanVars, lastDrain, polled, loc, res >>

\* close() as it would be if it signalled the child without testing the
\* handle
CloseTerminateBlind(t) ==
    /\ pc[t] = "cl_term"
    /\ signals' = [signals EXCEPT ![loc[t].obj] = @ \cup {"term"}]
    /\ proc' = [proc EXCEPT ![loc[t].obj] =
                  IF @ = "alive" /\ ~stubborn[loc[t].obj] THEN "dead" ELSE @]
    /\ Goto(t, "cl_wait")
    /\ UNCHANGED << regVars, sessVars, stubborn, written, pumpVars, envVars,
                    cbVars, ttyVars, sanVars, lastDrain, polled, loc, res >>

\* 201-203: if self.process: self.process.terminate(). terminate() signals a
\* live child (SIGHUP, SIGINT), which dies unless it ignores them, and
\* returns; on a child that is already gone its liveness check may raise
\* (the pump races it for the exit status), which leads to 205-207.
CloseTerminate(t) ==
    /\ pc[t] = "cl_term"
    /\ LET o == loc[t].obj IN
       IF process[o] = None
       THEN /\ Goto(t, "cl_release")
            /\ UNCHANGED << proc, signals >>
       ELSE IF proc[o] = "alive"
       THEN /\ signals' = [signals EXCEPT ![o] = @ \cup {"term"}]
            /\ proc' = [proc EXCEPT ![o] = IF stubborn[o] THEN "alive" ELSE "dead"]
            /\ Goto(t, "cl_wait")
       ELSE /\ \E raise \in BOOLEAN : Goto(t, IF raise THEN "cl_kill" ELSE "cl_wait")
            /\ UNCHANGED << proc, signals >>
    /\ UNCHANGED << regVars, sessVars, stubborn, written, pumpVars, envVars, cbVars, ttyVars, sanVars,
                    lastDrain, polled, loc, res >>

\* 204: self.process.wait() returns once the child is gone (or raises, as
\* terminate() may), and blocks while it lives; a handle released meanwhile
\* raises AttributeError
CloseWait(t) ==
    /\ pc[t] = "cl_wait"
    /\ LET o == loc[t].obj IN
       IF process[o] = None
       THEN Goto(t, "cl_kill")
       ELSE /\ proc[o] = "dead"
            /\ \E raise \in BOOLEAN : Goto(t, IF raise THEN "cl_kill" ELSE "cl_release")
    /\ UNCHANGED << regVars, sessVars, procVars, pumpVars, envVars, cbVars, ttyVars, sanVars, lastDrain, polled,
                    loc, res >>

\* 205-209: the handler of any error of terminate()/wait(): kill(), whose
\* own errors are ignored
CloseKill(t) ==
    /\ pc[t] = "cl_kill"
    /\ LET o == loc[t].obj IN
       IF process[o] # None /\ proc[o] = "alive"
       THEN /\ signals' = [signals EXCEPT ![o] = @ \cup {"kill"}]
            /\ proc' = [proc EXCEPT ![o] = "dead"]
       ELSE UNCHANGED << proc, signals >>
    /\ Goto(t, "cl_release")
    /\ UNCHANGED << regVars, sessVars, stubborn, written, pumpVars, envVars, cbVars, ttyVars, sanVars,
                    lastDrain, polled, loc, res >>

\* 210: self.process = None
CloseRelease(t) ==
    /\ pc[t] = "cl_release"
    /\ process' = [process EXCEPT ![loc[t].obj] = None]
    /\ Goto(t, "cl_check")
    /\ UNCHANGED << regVars, nobj, session_id, device_id, active, output_buffer,
                    procVars, pumpVars, envVars, cbVars, ttyVars, sanVars, lastDrain, polled, loc, res >>

\* 269: if session_id in self.sessions
CloseCheck(t) ==
    /\ pc[t] = "cl_check"
    /\ IF loc[t].id \in DOMAIN sessions
       THEN /\ Goto(t, "cl_del")
            /\ UNCHANGED << loc, res >>
       ELSE Return(t, [NoRes EXCEPT !.op = "close", !.id = loc[t].id,
                                    !.obj = loc[t].obj, !.ok = TRUE])
    /\ UNCHANGED << regVars, sessVars, procVars, pumpVars, envVars, cbVars, ttyVars, sanVars, lastDrain, polled >>

\* close_session as it would be without the del
UnregisterNothing(id) == sessions

\* del self.sessions[session_id]
Unregister(id) == [i \in DOMAIN sessions \ {id} |-> sessions[i]]

\* 270: del self.sessions[session_id]; KeyError when the key has gone since
CloseDel(t) ==
    /\ pc[t] = "cl_del"
    /\ sessions' = Unregister(loc[t].id)
    /\ Return(t, [NoRes EXCEPT !.op = "close", !.id = loc[t].id,
                               !.obj = loc[t].obj,
                               !.ok = loc[t].id \in DOMAIN sessions,
                               !.exc = loc[t].id \notin DOMAIN sessions])
    /\ UNCHANGED << session_counter, sessVars, procVars, pumpVars, envVars, cbVars, ttyVars, sanVars,
                    lastDrain, polled >>

\* ------------------------------------------------------------------------
\* TerminalManager.write_to_session (250-255), TerminalSession.write_input
\* (149-168)
\* ------------------------------------------------------------------------

\* 252-255: the lookup; an unknown id returns False
WriteToSession(t) ==
    /\ pc[t] = "idle"
    /\ \E id \in KnownIds, data \in WriteData :
         LET o == GetSession(id) IN
         IF o = NoObj
         THEN Return(t, [NoRes EXCEPT !.op = "write", !.id = id])
         ELSE /\ Goto(t, "wr_check")
              /\ loc' = [loc EXCEPT ![t] =
                           [NoLoc EXCEPT !.id = id, !.obj = o, !.data = data]]
              /\ res' = [res EXCEPT ![t] = NoRes]
    /\ UNCHANGED << regVars, sessVars, procVars, pumpVars, envVars, cbVars, ttyVars, sanVars, lastDrain, polled >>

\* write_input called on a TerminalSession the caller holds, registered or
\* not (a session whose start() failed, a session since closed)
WriteDirect(t) ==
    /\ pc[t] = "idle"
    /\ \E o \in 1..nobj, data \in WriteData :
         /\ Goto(t, "wr_check")
         /\ loc' = [loc EXCEPT ![t] = [NoLoc EXCEPT !.obj = o, !.data = data]]
         /\ res' = [res EXCEPT ![t] = NoRes]
    /\ UNCHANGED << regVars, sessVars, procVars, pumpVars, envVars, cbVars, ttyVars, sanVars, lastDrain, polled >>

\* write_input as it would be if it tested the handle alone
WriteCheckHandleOnly(t) ==
    /\ pc[t] = "wr_check"
    /\ IF process[loc[t].obj] # None
       THEN /\ Goto(t, "wr_write")
            /\ UNCHANGED << loc, res >>
       ELSE Return(t, [NoRes EXCEPT !.op = "write", !.id = loc[t].id,
                                    !.obj = loc[t].obj])
    /\ UNCHANGED << regVars, sessVars, procVars, pumpVars, envVars, cbVars, ttyVars, sanVars, lastDrain, polled >>

\* 151, 168: if self.process and self.active, else return False
WriteCheck(t) ==
    /\ pc[t] = "wr_check"
    /\ IF process[loc[t].obj] # None /\ active[loc[t].obj]
       THEN /\ Goto(t, "wr_write")
            /\ UNCHANGED << loc, res >>
       ELSE Return(t, [NoRes EXCEPT !.op = "write", !.id = loc[t].id,
                                    !.obj = loc[t].obj])
    /\ UNCHANGED << regVars, sessVars, procVars, pumpVars, envVars, cbVars, ttyVars, sanVars, lastDrain, polled >>

\* write_input as it would be if the newline were appended unconditionally
WithNewlineAlways(data) == Append(data, LF)

\* 154-155: if not data.endswith('\n'): data += '\n'
WithNewline(data) ==
    IF data # << >> /\ data[Len(data)] = LF THEN data ELSE Append(data, LF)

\* 153-164: the newline, write() and flush(), return True; a released
\* handle raises AttributeError: 165-167, return False
WriteWrite(t) ==
    /\ pc[t] = "wr_write"
    /\ LET o == loc[t].obj IN
       IF process[o] = None
       THEN /\ Return(t, [NoRes EXCEPT !.op = "write", !.id = loc[t].id,
                                       !.obj = o, !.exc = TRUE])
            /\ written' = written
       ELSE /\ Len(written[o]) < MaxWrites
            /\ written' = [written EXCEPT ![o] = Append(@, WithNewline(loc[t].data))]
            /\ Return(t, [NoRes EXCEPT !.op = "write", !.id = loc[t].id,
                                       !.obj = o, !.ok = TRUE, !.out = loc[t].data])
    /\ UNCHANGED << regVars, sessVars, proc, stubborn, signals, pumpVars, envVars, cbVars, ttyVars, sanVars,
                    lastDrain, polled >>

\* write_input as it would be if a failed write marked the session inactive
WriteRaisesFatal(t) ==
    /\ pc[t] = "wr_write"
    /\ process[loc[t].obj] # None
    /\ active' = [active EXCEPT ![loc[t].obj] = FALSE]
    /\ Return(t, [NoRes EXCEPT !.op = "write", !.id = loc[t].id,
                               !.obj = loc[t].obj, !.exc = TRUE])
    /\ UNCHANGED << regVars, nobj, session_id, device_id, process, output_buffer,
                    procVars, pumpVars, envVars, cbVars, ttyVars, sanVars, lastDrain,
                    polled >>

\* 158-167: write() or flush() raises: return False
WriteRaises(t) ==
    /\ pc[t] = "wr_write"
    /\ process[loc[t].obj] # None
    /\ Return(t, [NoRes EXCEPT !.op = "write", !.id = loc[t].id,
                               !.obj = loc[t].obj, !.exc = TRUE])
    /\ UNCHANGED << regVars, sessVars, procVars, pumpVars, envVars, cbVars, ttyVars, sanVars, lastDrain, polled >>

\* ------------------------------------------------------------------------
\* TerminalManager.resize_session (257-262), TerminalSession.resize (170-179)
\* ------------------------------------------------------------------------

\* 259-262: the lookup; an unknown id returns False
ResizeSession(t) ==
    /\ pc[t] = "idle"
    /\ \E id \in KnownIds, size \in WinSizes :
         LET o == GetSession(id) IN
         IF o = NoObj
         THEN Return(t, [NoRes EXCEPT !.op = "resize", !.id = id])
         ELSE /\ Goto(t, "rs_check")
              /\ loc' = [loc EXCEPT ![t] =
                           [NoLoc EXCEPT !.id = id, !.obj = o, !.size = size]]
              /\ res' = [res EXCEPT ![t] = NoRes]
    /\ UNCHANGED << regVars, sessVars, procVars, pumpVars, envVars, cbVars,
                    ttyVars, sanVars, lastDrain, polled >>

\* 172, 179: if self.process and self.active, else return False
ResizeCheck(t) ==
    /\ pc[t] = "rs_check"
    /\ IF process[loc[t].obj] # None /\ active[loc[t].obj]
       THEN /\ Goto(t, "rs_call")
            /\ UNCHANGED << loc, res >>
       ELSE Return(t, [NoRes EXCEPT !.op = "resize", !.id = loc[t].id,
                                    !.obj = loc[t].obj])
    /\ UNCHANGED << regVars, sessVars, procVars, pumpVars, envVars, cbVars,
                    ttyVars, sanVars, lastDrain, polled >>

\* 173-175: self.process.setwinsize(rows, cols), return True; a released
\* handle raises AttributeError: 176-178, return False
ResizeCall(t) ==
    /\ pc[t] = "rs_call"
    /\ LET o == loc[t].obj IN
       IF process[o] = None
       THEN /\ Return(t, [NoRes EXCEPT !.op = "resize", !.id = loc[t].id,
                                       !.obj = o, !.exc = TRUE])
            /\ winsize' = winsize
       ELSE /\ winsize' = [winsize EXCEPT ![o] = loc[t].size]
            /\ Return(t, [NoRes EXCEPT !.op = "resize", !.id = loc[t].id,
                                       !.obj = o, !.ok = TRUE])
    /\ UNCHANGED << regVars, sessVars, procVars, pumpVars, envVars, cbVars,
                    sanVars, lastDrain, polled >>

\* 174-178: setwinsize() raises: return False
ResizeRaises(t) ==
    /\ pc[t] = "rs_call"
    /\ process[loc[t].obj] # None
    /\ Return(t, [NoRes EXCEPT !.op = "resize", !.id = loc[t].id,
                               !.obj = loc[t].obj, !.exc = TRUE])
    /\ UNCHANGED << regVars, sessVars, procVars, pumpVars, envVars, cbVars,
                    ttyVars, sanVars, lastDrain, polled >>

\* ------------------------------------------------------------------------
\* TerminalManager.get_active_sessions (272-283),
\* cleanup_inactive_sessions (285-293)
\* ------------------------------------------------------------------------

\* the keys of self.sessions in the order of the dict: the order of
\* insertion, which for ids issued by one creator is that of their counters
RECURSIVE Ordered(_)
Ordered(ids) ==
    IF ids = {} THEN << >>
    ELSE LET first == CHOOSE i \in ids : \A j \in ids : i[1] <= j[1]
         IN  << first >> \o Ordered(ids \ {first})

\* the loop over self.sessions.items() (275, 288) goes on: the dict has
\* the size it had when the loop began; otherwise the iterator raises
\* RuntimeError
LoopIntact(t) == Cardinality(DOMAIN sessions) = loc[t].tmp

\* the entries the iterator has still to yield: those inserted after the one
\* it yielded last (a deleted one is skipped, a new one is found at the end)
Remaining(t) == {i \in DOMAIN sessions : i[1] > loc[t].pos}

NextKey(t) == Head(Ordered(Remaining(t)))

\* the ids registered now for a Session that is not active. In `was` a
\* caller keeps, as history, the entries its operation was called on: the
\* inactive ones for the list and the cleanup, all of them for close_all
InactiveIds == {i \in DOMAIN sessions : ~active[sessions[i]]}

\* 274-275: active_sessions = {}, the loop begins
ListBegin(t) ==
    /\ pc[t] = "idle"
    /\ Goto(t, "ls_scan")
    /\ loc' = [loc EXCEPT ![t] =
                 [NoLoc EXCEPT !.tmp = Cardinality(DOMAIN sessions),
                               !.was = InactiveIds]]
    /\ res' = [res EXCEPT ![t] = NoRes]
    /\ UNCHANGED << regVars, sessVars, procVars, pumpVars, envVars, cbVars,
                    ttyVars, sanVars, lastDrain, polled >>

\* get_active_sessions as it would be if it listed every entry
ListScanAll(t) ==
    /\ pc[t] = "ls_scan"
    /\ IF ~LoopIntact(t)
       THEN Return(t, [NoRes EXCEPT !.op = "list", !.exc = TRUE])
       ELSE IF Remaining(t) = {}
       THEN Return(t, [NoRes EXCEPT !.op = "list", !.ok = TRUE,
                                    !.summary = loc[t].acc])
       ELSE /\ Goto(t, "ls_add")
            /\ loc' = [loc EXCEPT ![t].id = NextKey(t),
                                  ![t].obj = sessions[NextKey(t)]]
            /\ res' = res
    /\ UNCHANGED << regVars, sessVars, procVars, pumpVars, envVars, cbVars,
                    ttyVars, sanVars, lastDrain, polled >>

\* 275-276, 283: the next item, if session.active; the result once the
\* loop is over
ListScan(t) ==
    /\ pc[t] = "ls_scan"
    /\ IF ~LoopIntact(t)
       THEN Return(t, [NoRes EXCEPT !.op = "list", !.exc = TRUE])
       ELSE IF Remaining(t) = {}
       THEN Return(t, [NoRes EXCEPT !.op = "list", !.ok = TRUE,
                                    !.summary = loc[t].acc])
       ELSE /\ IF active[sessions[NextKey(t)]]
               THEN /\ Goto(t, "ls_add")
                    /\ loc' = [loc EXCEPT ![t].id = NextKey(t),
                                          ![t].obj = sessions[NextKey(t)]]
               ELSE /\ pc' = pc
                    /\ loc' = [loc EXCEPT ![t].pos = NextKey(t)[1]]
            /\ res' = res
    /\ UNCHANGED << regVars, sessVars, procVars, pumpVars, envVars, cbVars,
                    ttyVars, sanVars, lastDrain, polled >>

\* 277-282: the summary of the session, from its fields as they are now
ListAdd(t) ==
    /\ pc[t] = "ls_add"
    /\ Goto(t, "ls_scan")
    /\ loc' = [loc EXCEPT ![t].pos = loc[t].id[1],
                          ![t].acc = @ \cup
                             {[id |-> loc[t].id,
                               device_id |-> device_id[loc[t].obj],
                               active |-> active[loc[t].obj],
                               buffer_length |-> Len(output_buffer[loc[t].obj])]}]
    /\ UNCHANGED << regVars, sessVars, procVars, pumpVars, envVars, cbVars,
                    ttyVars, sanVars, lastDrain, polled, res >>

ListStep(t) == ListBegin(t) \/ ListScan(t) \/ ListAdd(t)

\* 287-288: inactive_sessions = [], the loop begins
CleanupBegin(t) ==
    /\ pc[t] = "idle"
    /\ Goto(t, "cu_scan")
    /\ loc' = [loc EXCEPT ![t] =
                 [NoLoc EXCEPT !.caller = "cleanup",
                               !.tmp = Cardinality(DOMAIN sessions),
                               !.was = InactiveIds]]
    /\ res' = [res EXCEPT ![t] = NoRes]
    /\ UNCHANGED << regVars, sessVars, procVars, pumpVars, envVars, cbVars,
                    ttyVars, sanVars, lastDrain, polled >>

\* cleanup_inactive_sessions as it would be if it kept the id of every entry
CleanupScanAll(t) ==
    /\ pc[t] = "cu_scan"
    /\ IF ~LoopIntact(t)
       THEN Return(t, [NoRes EXCEPT !.op = "cleanup", !.exc = TRUE])
       ELSE /\ IF Remaining(t) = {}
               THEN /\ Goto(t, "cu_next")
                    /\ loc' = loc
               ELSE /\ pc' = pc
                    /\ loc' = [loc EXCEPT
                          ![t].pos = NextKey(t)[1],
                          ![t].todo = Append(@, NextKey(t))]
            /\ res' = res
    /\ UNCHANGED << regVars, sessVars, procVars, pumpVars, envVars, cbVars,
                    ttyVars, sanVars, lastDrain, polled >>

\* 288-290: the next item: if not session.active, its id is kept
CleanupScan(t) ==
    /\ pc[t] = "cu_scan"
    /\ IF ~LoopIntact(t)
       THEN Return(t, [NoRes EXCEPT !.op = "cleanup", !.exc = TRUE])
       ELSE /\ IF Remaining(t) = {}
               THEN /\ Goto(t, "cu_next")
                    /\ loc' = loc
               ELSE /\ pc' = pc
                    /\ loc' = [loc EXCEPT
                          ![t].pos = NextKey(t)[1],
                          ![t].todo = IF active[sessions[NextKey(t)]]
                                      THEN @
                                      ELSE Append(@, NextKey(t))]
            /\ res' = res
    /\ UNCHANGED << regVars, sessVars, procVars, pumpVars, envVars, cbVars,
                    ttyVars, sanVars, lastDrain, polled >>

\* close_all_sessions as it would be if it looped over the inactive entries
CloseAllBeginInactive(t) ==
    /\ pc[t] = "idle"
    /\ Goto(t, "cu_next")
    /\ loc' = [loc EXCEPT ![t] =
                 [NoLoc EXCEPT !.caller = "close_all",
                               !.todo = Ordered(InactiveIds),
                               !.was = DOMAIN sessions]]
    /\ res' = [res EXCEPT ![t] = NoRes]
    /\ UNCHANGED << regVars, sessVars, procVars, pumpVars, envVars, cbVars,
                    ttyVars, sanVars, lastDrain, polled >>

\* 297: the loop of close_all_sessions over list(self.sessions.keys())
CloseAllBegin(t) ==
    /\ pc[t] = "idle"
    /\ Goto(t, "cu_next")
    /\ loc' = [loc EXCEPT ![t] =
                 [NoLoc EXCEPT !.caller = "close_all",
                               !.todo = Ordered(DOMAIN sessions),
                               !.was = DOMAIN sessions]]
    /\ res' = [res EXCEPT ![t] = NoRes]
    /\ UNCHANGED << regVars, sessVars, procVars, pumpVars, envVars, cbVars,
                    ttyVars, sanVars, lastDrain, polled >>

\* 292-293, 297-298: close_session for the next id kept; the end of the loop
CleanupNext(t) ==
    /\ pc[t] = "cu_next"
    /\ IF loc[t].todo = << >>
       THEN /\ pc' = [pc EXCEPT ![t] = "idle"]
            /\ loc' = [loc EXCEPT ![t] = NoLoc]
            /\ res' = [res EXCEPT ![t] =
                         [NoRes EXCEPT !.op = loc[t].caller, !.ok = TRUE]]
       ELSE CloseSession(t, Head(loc[t].todo), [loc[t] EXCEPT !.todo = Tail(@)])
    /\ UNCHANGED << regVars, sessVars, procVars, pumpVars, envVars, cbVars,
                    ttyVars, sanVars, lastDrain, polled >>

CleanupStep(t) == CleanupBegin(t) \/ CleanupScan(t) \/ CleanupNext(t)

\* ------------------------------------------------------------------------
\* get_terminal_output (app.py 3374-3392) with TerminalSession.get_buffer
\* (190-192) and clear_buffer (194-196)
\* ------------------------------------------------------------------------

\* ''.join(chunks)
RECURSIVE Join(_)
Join(chunks) ==
    IF chunks = << >> THEN << >> ELSE Head(chunks) \o Join(Tail(chunks))

\* 192: return ''.join(self.output_buffer)
GetBuffer(o) == Join(output_buffer[o])

\* clear_buffer as it would be if it left the chunks in place
ClearBufferKeeps(o) == output_buffer

\* clear_buffer as it would be if it kept the oldest chunk
ClearBufferButFirst(o) ==
    [output_buffer EXCEPT ![o] = SubSeq(@, 1, IF Len(@) > 0 THEN 1 ELSE 0)]

\* 196: self.output_buffer.clear()
ClearBuffer(o) == [output_buffer EXCEPT ![o] = << >>]

\* 3377, 3388-3392: the lookup; an unknown id is answered "not found"
PollBegin(t) ==
    /\ pc[t] = "idle"
    /\ \E id \in KnownIds :
         LET o == GetSession(id) IN
         IF o = NoObj
         THEN Return(t, [NoRes EXCEPT !.op = "poll", !.id = id])
         ELSE /\ Goto(t, "po_get")
              /\ loc' = [loc EXCEPT ![t] = [NoLoc EXCEPT !.id = id, !.obj = o]]
              /\ res' = [res EXCEPT ![t] = NoRes]
    /\ UNCHANGED << regVars, sessVars, procVars, pumpVars, envVars, cbVars, ttyVars, sanVars, lastDrain, polled >>

\* 3380: output = session.get_buffer()
PollGet(t) ==
    /\ pc[t] = "po_get"
    /\ loc' = [loc EXCEPT ![t].out = GetBuffer(loc[t].obj)]
    /\ polled' = [polled EXCEPT ![loc[t].obj] = [k \in DOMAIN @ |-> TRUE]]
    /\ Goto(t, "po_clear")
    /\ UNCHANGED << regVars, sessVars, procVars, pumpVars, envVars, cbVars,
                    ttyVars, sanVars, lastDrain, res >>

\* 3381: session.clear_buffer()
PollClear(t) ==
    /\ pc[t] = "po_clear"
    /\ output_buffer' = ClearBuffer(loc[t].obj)
    /\ lastDrain' = [lastDrain EXCEPT ![t] = [obj |-> loc[t].obj, out |-> loc[t].out]]
    /\ polled' = [polled EXCEPT ![loc[t].obj] =
                    SubSeq(@, 1, Len(output_buffer'[loc[t].obj]))]
    /\ Goto(t, "po_ret")
    /\ UNCHANGED << regVars, nobj, session_id, device_id, process, active,
                    procVars, pumpVars, envVars, cbVars, ttyVars, sanVars, loc, res >>

\* 3383-3387: the response, with session.active as it is now
PollReturn(t) ==
    /\ pc[t] = "po_ret"
    /\ Return(t, [NoRes EXCEPT !.op = "poll", !.id = loc[t].id, !.obj = loc[t].obj,
                               !.ok = TRUE, !.out = loc[t].out,
                               !.act = active[loc[t].obj]])
    /\ UNCHANGED << regVars, sessVars, procVars, pumpVars, envVars, cbVars, ttyVars, sanVars, lastDrain, polled >>

\* ------------------------------------------------------------------------
\* The system: callers, pumps and the environment, interleaved
\* ------------------------------------------------------------------------
CreateRest(t) ==
    \/ CreateLoad(t)
    \/ CreateStore(t)
    \/ CreateId(t)
    \/ CreateSpawn(t)
    \/ CreateActive(t)
    \/ CreateInsert(t)

CreateStep(t) == CreateBegin(t) \/ CreateRest(t)

CloseStep(t) ==
    \/ CloseBegin(t)
    \/ CloseActive(t)
    \/ CloseTerminate(t)
    \/ CloseWait(t)
    \/ CloseKill(t)
    \/ CloseRelease(t)
    \/ CloseCheck(t)
    \/ CloseDel(t)

WriteStep(t) ==
    \/ WriteToSession(t)
    \/ WriteDirect(t)
    \/ WriteCheck(t)
    \/ WriteWrite(t)

PollStep(t) ==
    \/ PollBegin(t)
    \/ PollGet(t)
    \/ PollClear(t)
    \/ PollReturn(t)

ResizeStep(t) ==
    \/ ResizeSession(t)
    \/ ResizeCheck(t)
    \/ ResizeCall(t)

\* the operations of the registry that take an id, on any id
LookupStep(t) ==
    \/ CloseStep(t)
    \/ WriteToSession(t) \/ WriteCheck(t) \/ WriteWrite(t)
    \/ ResizeStep(t)
    \/ PollStep(t)

\* the pump while the child lives and prints nothing
PumpQuiet(o) ==
    \/ PumpLoop(o)
    \/ PumpIsAlive(o)
    \/ PumpReadCall(o)

\* the pump when the child is gone
PumpDeath(o) ==
    \/ PumpReadEof(o)
    \/ PumpClosedMarker(o)
    \/ PumpExit(o)

PumpStep(o) == PumpQuiet(o) \/ PumpReadData(o) \/ PumpDeath(o)

\* the pump with the unexpected errors of the transport
PumpAny(o) == PumpStep(o) \/ PumpIsAliveRaises(o) \/ PumpReadError(o)

\* the callers of the specifications that follow one session at a time
Owner == "t1"
Client == "t2"

\* Concurrent creation: every caller creates sessions; the children live
NextCreate ==
    \/ \E t \in Threads : CreateStep(t)
    \/ \E o \in Objs : PumpQuiet(o)
    \/ Tick

SpecCreate == Init /\ [][NextCreate]_vars

\* Life cycle: the owner creates and closes sessions while the client polls;
\* the child may die, or ignore the hang-up, at any time
Next ==
    \/ CreateSolo(Owner)
    \/ CreateRest(Owner)
    \/ CloseStep(Owner)
    \/ PollStep(Client)
    \/ \E o \in Objs : PumpQuiet(o) \/ PumpDeath(o)
    \/ \E o \in Objs : ProcDies(o) \/ ProcIgnoresHangup(o)

Spec == Init /\ [][Next]_vars

\* Polling: nobody closes; both callers poll while the pump delivers output,
\* the child may die and the transport may fail
NextPoll ==
    \/ CreateSolo(Owner)
    \/ CreateRest(Owner)
    \/ \E t \in Threads : PollStep(t)
    \/ \E o \in Objs : PumpAny(o)
    \/ \E o \in Objs : ProcDies(o)

SpecPoll == Init /\ [][NextPoll]_vars

\* the monitor thread is scheduled whenever it can take a step
FairPoll == SpecPoll /\ \A o \in Objs : WF_vars(PumpAny(o))

\* Writing: the client writes, through the registry or on a session it
\* holds, while the owner creates and closes
NextWrite ==
    \/ CreateSolo(Owner)
    \/ CreateRest(Owner)
    \/ CloseStep(Owner)
    \/ WriteStep(Client)
    \/ WriteRaises(Client)
    \/ \E o \in Objs : PumpQuiet(o) \/ PumpDeath(o)
    \/ \E o \in Objs : ProcDies(o)

SpecWrite == Init /\ [][NextWrite]_vars

\* Draining: one client polls, one poll after the other, while the pump
\* delivers output, the child may die and the transport may fail
NextDrain ==
    \/ CreateSolo(Owner)
    \/ CreateRest(Owner)
    \/ PollStep(Client)
    \/ \E o \in Objs : PumpAny(o)
    \/ \E o \in Objs : ProcDies(o)

SpecDrain == Init /\ [][NextDrain]_vars

\* Lookups: the client closes, writes to, resizes and polls any id, known
\* or not, while the owner creates and closes
NextLookup ==
    \/ CreateSolo(Owner)
    \/ CreateRest(Owner)
    \/ CloseStep(Owner)
    \/ LookupStep(Client)
    \/ \E o \in Objs : PumpQuiet(o)

SpecLookup == Init /\ [][NextLookup]_vars

\* Closing twice: both callers close, while the child may die
NextClose ==
    \/ CreateSolo(Owner)
    \/ CreateRest(Owner)
    \/ \E t \in Threads : CloseStep(t)
    \/ \E o \in Objs : PumpQuiet(o) \/ PumpDeath(o)
    \/ \E o \in Objs : ProcDies(o)

SpecClose == Init /\ [][NextClose]_vars

\* Faults: the client writes and resizes a live session whose pty may
\* refuse
NextFault ==
    \/ CreateSolo(Owner)
    \/ CreateRest(Owner)
    \/ WriteToSession(Client) \/ WriteCheck(Client) \/ WriteWrite(Client)
    \/ WriteRaises(Client)
    \/ ResizeStep(Client)
    \/ ResizeRaises(Client)
    \/ \E o \in Objs : PumpQuiet(o)

SpecFault == Init /\ [][NextFault]_vars

\* the callers' operations on the callbacks of the sessions they hold
CallbackStep(t) ==
    \E o \in 1..nobj, cb \in CallbackIds :
        AddCallback(t, o, cb) \/ RemoveCallback(t, o, cb)

\* Callbacks: the client registers and unregisters callbacks while the pump
\* delivers output and the child may die; nobody drains the buffer
NextCallback ==
    \/ CreateSolo(Owner)
    \/ CreateRest(Owner)
    \/ CallbackStep(Client)
    \/ \E o \in Objs : PumpStep(o) \/ PumpNotify(o)
    \/ \E o \in Objs : ProcDies(o)

SpecCallback == Init /\ [][NextCallback]_vars

\* Listing: the client lists the active sessions while the owner creates and
\* closes sessions, and the child may die
NextList ==
    \/ CreateBegin(Owner)
    \/ CreateRest(Owner)
    \/ CloseStep(Owner)
    \/ ListStep(Client)
    \/ \E o \in Objs : PumpQuiet(o) \/ PumpDeath(o)
    \/ \E o \in Objs : ProcDies(o)

SpecList == Init /\ [][NextList]_vars

\* Maintenance: the owner creates and closes sessions, cleans up the inactive
\* ones and closes them all, one call after the other, while the pumps run,
\* the transport may fail and the child may die or ignore the hang-up
NextCleanup ==
    \/ CreateBegin(Owner)
    \/ CreateRest(Owner)
    \/ CloseStep(Owner)
    \/ CleanupStep(Owner)
    \/ CloseAllBegin(Owner)
    \/ \E o \in Objs : PumpAny(o)
    \/ \E o \in Objs : ProcDies(o) \/ ProcIgnoresHangup(o)

SpecCleanup == Init /\ [][NextCleanup]_vars

\* close() from where close_session has found the Session
CloseRest(t) ==
    \/ CloseActive(t)
    \/ CloseTerminate(t)
    \/ CloseWait(t)
    \/ CloseKill(t)
    \/ CloseRelease(t)
    \/ CloseCheck(t)
    \/ CloseDel(t)

\* Shutdown: the owner creates sessions and closes them all, while the
\* client closes sessions one by one and the child may die; nobody creates
\* while close_all_sessions runs
NextCloseAll ==
    \/ CreateBegin(Owner)
    \/ CreateRest(Owner)
    \/ CloseAllBegin(Owner)
    \/ CleanupNext(Owner)
    \/ CloseRest(Owner)
    \/ CloseStep(Client)
    \/ \E o \in Objs : PumpQuiet(o) \/ PumpDeath(o)
    \/ \E o \in Objs : ProcDies(o)

SpecCloseAll == Init /\ [][NextCloseAll]_vars

\* Races: the client writes to, resizes and polls a session while the owner
\* closes it, the pump runs, the transport fails and the child may die
NextRace ==
    \/ CreateSolo(Owner)
    \/ CreateRest(Owner)
    \/ CloseStep(Owner)
    \/ WriteToSession(Client) \/ WriteCheck(Client) \/ WriteWrite(Client)
    \/ WriteRaises(Client)
    \/ ResizeStep(Client)
    \/ ResizeRaises(Client)
    \/ PollStep(Client)
    \/ \E o \in Objs : PumpAny(o)
    \/ \E o \in Objs : ProcDies(o)

SpecRace == Init /\ [][NextRace]_vars

\* 98-147: _clean_ansi_codes(text) returns
Sanitize ==
    /\ clean_text = NotCleaned
    /\ clean_text' = CleanAnsiCodes(Join(raw_text))
    /\ UNCHANGED << regVars, sessVars, procVars, pumpVars, thrVars, envVars,
                    lastDrain, polled, cbVars, ttyVars, raw_text >>

\* Sanitizing: _clean_ansi_codes is called on a chunk made of plain text and
\* sequences
InitSanitize ==
    /\ InitManager
    /\ raw_text \in PiecesUpTo(MaxPieces)
    /\ clean_text = NotCleaned

SpecSanitize == InitSanitize /\ [][Sanitize]_vars

\* Sanitizing control characters: _clean_ansi_codes is called on a chunk
\* made of text and C0 control characters
InitControl ==
    /\ InitManager
    /\ raw_text \in ControlChunks(MaxPieces)
    /\ clean_text = NotCleaned

SpecControl == InitControl /\ [][Sanitize]_vars

\* Closing under the pump: the owner closes the session while its pump runs;
\* the child may die, or ignore the hang-up
NextShut ==
    \/ CreateSolo(Owner)
    \/ CreateRest(Owner)
    \/ CloseStep(Owner)
    \/ \E o \in Objs : PumpQuiet(o) \/ PumpDeath(o)
    \/ \E o \in Objs : ProcDies(o) \/ ProcIgnoresHangup(o)

SpecShut == Init /\ [][NextShut]_vars

\* the owner and the monitor threads are scheduled whenever they can take
\* a step
FairShut ==
    /\ SpecShut
    /\ WF_vars(CloseStep(Owner))
    /\ \A o \in Objs : WF_vars(PumpQuiet(o) \/ PumpDeath(o))

\* a first poll by caller t
PollOnce(t) == res[t].op # "poll" /\ PollBegin(t)

\* Notifying: the client registers and unregisters callbacks, whose
\* callables may raise, while the pump delivers output and the owner, having
\* created the session, drains it once
NextNotify ==
    \/ CreateSolo(Owner)
    \/ CreateRest(Owner)
    \/ CallbackStep(Client)
    \/ PollOnce(Owner) \/ PollGet(Owner) \/ PollClear(Owner) \/ PollReturn(Owner)
    \/ \E o \in Objs : PumpStep(o) \/ PumpNotify(o)
    \/ \E o \in Objs : ProcDies(o)

SpecNotify == Init /\ [][NextNotify]_vars

\* write_to_session(id, "a") on any id
WriteLetter(t) ==
    /\ WriteToSession(t)
    /\ loc'[t].obj # NoObj => loc'[t].data = << 97 >>

\* resize_session(id, 40, 120) on any id
ResizeWide(t) ==
    /\ ResizeSession(t)
    /\ loc'[t].obj # NoObj => loc'[t].size = << 40, 120 >>

\* the operations that take a session id, once the sessions are created
AddressedStep(t) ==
    /\ nobj = MaxObj
    /\ pc[Owner] = "idle"
    /\ \/ CloseStep(t)
       \/ PollStep(t)
       \/ WriteLetter(t) \/ WriteCheck(t) \/ WriteWrite(t)
       \/ ResizeWide(t) \/ ResizeCheck(t) \/ ResizeCall(t)

\* Side by side: the owner creates the sessions one after the other; the
\* client then closes, polls, writes to and resizes any of them while their
\* pumps run and their children print
NextIsolated ==
    \/ CreateBegin(Owner)
    \/ CreateRest(Owner)
    \/ AddressedStep(Client)
    \/ \E o \in Objs : PumpQuiet(o) \/ PumpReadData(o)

SpecIsolated == Init /\ [][NextIsolated]_vars

\* ------------------------------------------------------------------------
\* Properties
\* ------------------------------------------------------------------------

\* the caller's step t is the one taken, from label a to label b
Moves(t, a, b) == pc[t] = a /\ pc'[t] = b

\* close() has begun on o: some caller is past line 200 of it
CloseBegun(o) ==
    \E t \in Threads :
        /\ pc[t] \in {"cl_term", "cl_wait", "cl_kill", "cl_release", "cl_check", "cl_del"}
        /\ loc[t].obj = o

\* the sanitized markers, as they sit in a buffer
MarkerChunks == {CleanOutput[MarkerTerminated], CleanOutput[MarkerClosed]}
HasMarker(buf) == \E k \in 1..Len(buf) : buf[k] \in MarkerChunks
TextHasMarker(text) ==
    \E m \in MarkerChunks : \E i \in 1..Len(text) : MatchAt(text, i, m)

\* C1: two create_session calls that both succeed, concurrent ones included,
\* return different session ids.
C1_UniqueIds ==
    \A t, u \in Threads :
        (/\ t # u
         /\ res[t].op = "create" /\ res[t].ok
         /\ res[u].op = "create" /\ res[u].ok)
        => res[t].id # res[u].id

\* C2: no lookup (get_session, as done by the poll endpoint) returns a
\* Session on which close() has already begun or whose handle is released.
C2_AtomicRemoval ==
    [][\A t \in Threads :
          Moves(t, "idle", "po_get")
          => (~CloseBegun(loc'[t].obj) /\ process[loc'[t].obj] # None)]_vars

\* C3: every Session in the registry map has had its start() return
\* success: it is spawned, its monitor thread is started and no caller is
\* still inside start() for it.
C3_RegisteredAfterStart ==
    \A id \in DOMAIN sessions :
        /\ proc[sessions[id]] # "none"
        /\ pump[sessions[id]] # "off"
        /\ \A t \in Threads : pc[t] = "cr_active" => loc[t].obj # sessions[id]

\* a session is registered while another caller is inside start()
C3_Witness ==
    /\ DOMAIN sessions # {}
    /\ \E t \in Threads : pc[t] = "cr_active"

\* C4: a started Session whose active flag is false never has it true again.
C4_ActiveNeverReturns ==
    [][\A o \in Objs : (pump[o] # "off" /\ ~active[o]) => ~active'[o]]_vars

\* a session set inactive by close() while its pump is still in its loop,
\* and one set inactive by the pump
C4_Witness ==
    \/ \E o \in Objs : pump[o] \in {"alive", "read", "reading"} /\ ~active[o]
    \/ \E o \in Objs : pump[o] = "done" /\ process[o] # None /\ ~active[o]

\* C5: once the child of an active session is dead, active
\* eventually becomes false; the pump leaves its loop only with a marker
\* appended; and the marker leaves the buffer only in a poll that returns it.
C5_DeathReported ==
    /\ \A o \in Objs : (proc[o] = "dead" /\ active[o]) ~> ~active[o]
    /\ [][\A o \in Objs :
            (proc[o] = "dead" /\ pump[o] # "exit" /\ pump'[o] = "exit")
            => (/\ Len(output_buffer'[o]) = Len(output_buffer[o]) + 1
                /\ output_buffer'[o][Len(output_buffer'[o])] \in MarkerChunks)]_vars
    /\ [][\A o \in Objs :
            (HasMarker(output_buffer[o]) /\ ~HasMarker(output_buffer'[o]))
            => \E t \in Threads :
                  /\ Moves(t, "po_clear", "po_ret")
                  /\ loc[t].obj = o
                  /\ TextHasMarker(loc[t].out)]_vars

\* C6: close() is never left waiting on a child that is still alive after
\* the terminate request: it escalates to kill and goes on.
C6_CloseNeverBlocks ==
    \A t \in Threads :
        pc[t] = "cl_wait"
        => ~(process[loc[t].obj] # None /\ proc[loc[t].obj] = "alive")

\* C7 (as stated): the id create_session returns is among the keys of
\* get_active_sessions; after close_session(id) returns it is in neither.
C7_Original ==
    [][\A t \in Threads :
          /\ Moves(t, "cr_insert", "idle") => res'[t].id \in GetActiveSessions'
          /\ (pc[t] \in {"cl_check", "cl_del"} /\ pc'[t] = "idle" /\ res'[t].ok)
             => (res'[t].id \notin GetActiveSessions'
                 /\ res'[t].id \notin DOMAIN sessions')]_vars

\* C7 (amended): the id create_session returns is registered for the new
\* session, and listed by get_active_sessions if the session is still
\* active; when close_session(id) returns, the id is in neither.
C7_Amended ==
    [][\A t \in Threads :
          /\ Moves(t, "cr_insert", "idle")
             => (/\ res'[t].ok
                 /\ res'[t].id \in DOMAIN sessions'
                 /\ sessions'[res'[t].id] = res'[t].obj
                 /\ active'[res'[t].obj] => res'[t].id \in GetActiveSessions')
          /\ (pc[t] \in {"cl_check", "cl_del"} /\ pc'[t] = "idle" /\ res'[t].ok)
             => (res'[t].id \notin GetActiveSessions'
                 /\ res'[t].id \notin DOMAIN sessions')]_vars

\* create_session has returned the id of a session its pump has already
\* marked inactive
C7_Witness ==
    \E t \in Threads :
        /\ res[t].op = "create" /\ res[t].ok
        /\ res[t].id \in DOMAIN sessions
        /\ sessions[res[t].id] = res[t].obj
        /\ ~active[res[t].obj]

\* C8: a write_input that succeeds sends exactly the data when the data ends
\* with a newline, and the data followed by one newline otherwise.
C8_NewlineOnce ==
    [][\A t \in Threads :
          (pc[t] = "wr_write" /\ pc'[t] = "idle" /\ res'[t].ok)
          => LET o == loc[t].obj
                 d == loc[t].data
                 w == written'[o][Len(written'[o])]
             IN  /\ Len(written'[o]) = Len(written[o]) + 1
                 /\ SubSeq(written'[o], 1, Len(written[o])) = written[o]
                 /\ IF d # << >> /\ d[Len(d)] = LF
                    THEN w = d
                    ELSE /\ Len(w) = Len(d) + 1
                         /\ SubSeq(w, 1, Len(d)) = d
                         /\ w[Len(w)] = LF]_vars

\* the child received "a\n" for a write_input("a\n")
C8_Witness ==
    \E t \in Threads :
        /\ res[t].op = "write" /\ res[t].ok
        /\ res[t].out = << 97, LF >>
        /\ written[res[t].obj] = << << 97, LF >> >>

\* C9: write_input on an inactive session returns False and writes nothing.
C9_InactiveWriteFails ==
    [][\A t \in Threads :
          (pc[t] = "wr_check" /\ pc'[t] # pc[t] /\ ~active[loc[t].obj])
          => (/\ pc'[t] = "idle"
              /\ res'[t].op = "write"
              /\ ~res'[t].ok
              /\ written' = written)]_vars

\* write_input has returned False on a session that holds its handle but
\* was marked inactive
C9_Witness ==
    \E t \in Threads :
        /\ res[t].op = "write" /\ ~res[t].ok /\ ~res[t].exc
        /\ res[t].obj # NoObj
        /\ process[res[t].obj] # None
        /\ ~active[res[t].obj]

\* the text length of the first k chunks
RECURSIVE TextLen(_, _)
TextLen(buf, k) == IF k = 0 THEN 0 ELSE TextLen(buf, k - 1) + Len(buf[k])

\* text is the chunks of buf one after the other
IsConcatenation(text, buf) ==
    /\ Len(text) = TextLen(buf, Len(buf))
    /\ \A k \in 1..Len(buf) :
          SubSeq(text, TextLen(buf, k - 1) + 1, TextLen(buf, k)) = buf[k]

\* C10: a drain returns the concatenation of the buffered chunks, and the
\* next drain by the same caller, with no append since, the empty string.
C10_DrainTwice ==
    [][\A t \in Threads :
          Moves(t, "po_get", "po_clear")
          => (/\ IsConcatenation(loc'[t].out, output_buffer[loc[t].obj])
              /\ lastDrain[t].obj = loc[t].obj => loc'[t].out = << >>)]_vars

\* a second drain has read "" after a first that returned text
C10_Witness ==
    \E t \in Threads :
        /\ pc[t] = "po_clear"
        /\ lastDrain[t].obj = loc[t].obj
        /\ lastDrain[t].out # << >>
        /\ loc[t].out = << >>


\* what a callable registered when the buffer held `since` chunks is to have
\* been called with once the first m chunks have gone through _handle_output
Expected(o, since, m) ==
    [k \in 1..(m - since) |-> << session_id[o], output_buffer[o][since + k] >>]

\* C11: a registered callback has been called exactly once, in order, with
\* the session id and the chunk, for every chunk appended since it was
\* registered (the chunk whose loop is under way may still be to come; a
\* callback registered during a loop may have got that loop's chunk too).
C11_CallbacksSeeEveryChunk ==
    \A o \in Objs : \A k \in Live(o) :
        LET d == delivered[o][callbacks[o][k]]
            n == Len(output_buffer[o])
            ok(m) == \/ d.got = Expected(o, d.since, m)
                     \/ /\ d.mid
                        /\ d.got = << << session_id[o], output_buffer[o][d.since] >> >>
                                     \o Expected(o, d.since, m)
        IN  \/ ok(n)
            \/ pump[o] = "notify" /\ n > d.since /\ ok(n - 1)

\* the chunks of buf that a get_buffer has returned
PolledPart(o) ==
    SubSeq(output_buffer[o], 1, Cardinality({k \in DOMAIN polled[o] : polled[o][k]}))

\* C12: with polls made one after the other, no chunk a poll's get_buffer
\* returns has been returned by an earlier poll, and the poll's result is
\* made of the chunks its get_buffer found, without those appended before
\* its clear_buffer.
C12_ChunkReturnedOnce ==
    [][\A t \in Threads :
          /\ Moves(t, "po_get", "po_clear")
             => \A k \in DOMAIN polled[loc[t].obj] : ~polled[loc[t].obj][k]
          /\ Moves(t, "po_clear", "po_ret")
             => IsConcatenation(loc[t].out, PolledPart(loc[t].obj))
          /\ Moves(t, "po_ret", "idle") => res'[t].out = loc[t].out]_vars

\* a poll is about to clear a chunk that its get_buffer returned and one
\* that was appended since
C12_Witness ==
    \E t \in Threads :
        /\ pc[t] = "po_clear"
        /\ polled[loc[t].obj] = << TRUE, FALSE >>
        /\ loc[t].out = output_buffer[loc[t].obj][1]

\* the chunks the pump can append
CleanChunks == {CleanOutput[output] : output \in PumpOutputs}

\* C13: the buffer changes only by the pump appending a sanitized chunk at
\* its end and by clear_buffer emptying it; get_buffer returns the chunks
\* it holds, in order, and leaves it as it is.
C13_BufferIsAppendOrder ==
    [][/\ \A o \in Objs :
            output_buffer'[o] # output_buffer[o]
            => \/ /\ pump[o] \in {"reading", "closed"}
                  /\ \E c \in CleanChunks :
                        output_buffer'[o] = Append(output_buffer[o], c)
               \/ /\ output_buffer'[o] = << >>
                  /\ \E t \in Threads :
                        Moves(t, "po_clear", "po_ret") /\ loc[t].obj = o
       /\ \A t \in Threads :
            Moves(t, "po_get", "po_clear")
            => /\ output_buffer' = output_buffer
               /\ IsConcatenation(loc'[t].out, output_buffer[loc[t].obj])]_vars

\* get_buffer has returned two chunks, the output and the marker, in order
C13_Witness ==
    \E t \in Threads :
        /\ pc[t] = "po_clear"
        /\ Len(output_buffer[loc[t].obj]) = 2
        /\ polled[loc[t].obj] = << TRUE, TRUE >>
        /\ output_buffer[loc[t].obj][1] # output_buffer[loc[t].obj][2]
        /\ loc[t].out = output_buffer[loc[t].obj][1] \o output_buffer[loc[t].obj][2]

\* the operations that look an id up, and where each is once it has found it
LookupOps == {"close", "write", "resize", "poll"}
LookupLabels == {"cl_active", "wr_check", "rs_check", "po_get"}

\* C14: an operation on an id goes on only if the id is registered; on an id
\* that is not, it returns at once, not found, without raising, and leaves
\* the registry, every session, every child and every pump as they were.
C14_UnknownIdNoOp ==
    [][\A t \in Threads :
          pc[t] = "idle"
          => /\ pc'[t] \in LookupLabels => loc'[t].id \in DOMAIN sessions
             /\ (pc'[t] = "idle" /\ res'[t] # res[t] /\ res'[t].op \in LookupOps)
                => /\ res'[t].id \notin DOMAIN sessions
                   /\ res'[t].obj = NoObj
                   /\ ~res'[t].ok
                   /\ ~res'[t].exc
                   /\ UNCHANGED << regVars, sessVars, procVars, pumpVars,
                                   cbVars, ttyVars >>]_vars

\* an operation was answered "not found" for the id of a session that has
\* been closed
C14_Witness ==
    \E t \in Threads : \E o \in 1..nobj :
        /\ pc[t] = "idle"
        /\ res[t].op \in LookupOps /\ res[t].obj = NoObj /\ ~res[t].ok
        /\ res[t].id = session_id[o]
        /\ pump[o] # "off" /\ process[o] = None
        /\ res[t].id \notin DOMAIN sessions

\* close() has run to its end on o
Closed(o) == pump[o] # "off" /\ ~active[o] /\ process[o] = None

\* C17: the steps of a close() on a session that is already closed change
\* neither its flag, its handle, its buffer nor its child, send no signal,
\* and go straight from the test of the handle to its release.
C17_CloseIdempotent ==
    [][\A t \in Threads :
          (/\ pc[t] \in {"cl_active", "cl_term", "cl_release"}
           /\ pc'[t] # pc[t]
           /\ Closed(loc[t].obj))
          => /\ pc'[t] \in {"cl_term", "cl_release", "cl_check"}
             /\ Closed(loc[t].obj)'
             /\ UNCHANGED << sessVars, procVars, regVars >>]_vars

\* a close() is at the test of the handle of a session that the other
\* caller's close_session has closed and removed
C17_Witness ==
    \E t, u \in Threads :
        /\ t # u
        /\ pc[t] = "cl_term"
        /\ Closed(loc[t].obj)
        /\ signals[loc[t].obj] = {"term"}
        /\ pc[u] = "idle" /\ res[u].op = "close" /\ res[u].ok
        /\ res[u].obj = loc[t].obj

\* C18: a write_input or resize whose call on the pty fails returns failure
\* and changes nothing: the flag, the handle, the buffer, the registry, the
\* child, what it has received and its window are as they were, so that
\* the session is as usable as before.
C18_FaultNotFatal ==
    [][\A t \in Threads :
          (/\ pc[t] \in {"wr_write", "rs_call"}
           /\ pc'[t] = "idle"
           /\ process[loc[t].obj] # None
           /\ res'[t].exc)
          => /\ ~res'[t].ok
             /\ res'[t].op = (IF pc[t] = "wr_write" THEN "write" ELSE "resize")
             /\ UNCHANGED << regVars, sessVars, procVars, pumpVars, ttyVars >>]_vars

\* a resize has failed on a session that another resize has succeeded on: it
\* is registered, active, holds its handle and its child lives
C18_Witness ==
    \E t \in Threads :
        /\ pc[t] = "idle"
        /\ res[t].op = "resize" /\ res[t].exc /\ ~res[t].ok
        /\ res[t].id \in DOMAIN sessions
        /\ sessions[res[t].id] = res[t].obj
        /\ active[res[t].obj] /\ process[res[t].obj] # None
        /\ proc[res[t].obj] = "alive"
        /\ winsize[res[t].obj] # NoSize


\* a create_session call of t returns the failure indicator in this step
CreateFails(t) ==
    /\ pc'[t] = "idle"
    /\ res'[t] # res[t]
    /\ res'[t].op = "create"
    /\ ~res'[t].ok

\* C15: a create_session that fails, on the locator, on the device or on
\* start(), never writes the session map: every step of create_session but
\* the registration that follows a successful start() leaves the map as it
\* is, and when the call returns None the Session it may have constructed is
\* not in the map.
C15_FailureRegistersNothing ==
    [][\A t \in Threads :
          /\ (pc[t] \in {"idle"} \cup PreConstruct \cup {"cr_active"} /\ pc'[t] # pc[t])
             => sessions' = sessions
          /\ CreateFails(t)
             => /\ sessions' = sessions
                /\ \A id \in DOMAIN sessions' : sessions'[id] # res'[t].obj]_vars

\* a create_session has failed in start() while a session is registered
C15_Witness ==
    /\ DOMAIN sessions # {}
    /\ \E t \in Threads :
         res[t].op = "create" /\ ~res[t].ok /\ res[t].obj # NoObj

\* C16: a create_session that fails because the locator is unavailable or
\* no device is connected changes nothing: map, counter, Sessions, child
\* processes and monitor threads are what they were.
C16_EarlyFailureNoEffect ==
    [][\A t \in Threads :
          (pc[t] = "idle" /\ CreateFails(t))
          => UNCHANGED << regVars, sessVars, procVars, pumpVars >>]_vars

\* a create_session has failed before constructing anything, with a session
\* registered and the counter advanced
C16_Witness ==
    /\ DOMAIN sessions # {}
    /\ session_counter > 0
    /\ \E t \in Threads :
         /\ pc[t] = "idle"
         /\ res[t].op = "create" /\ ~res[t].ok /\ res[t].obj = NoObj


\* buffer a is the beginning of buffer b
Extends(a, b) == Len(a) <= Len(b) /\ SubSeq(b, 1, Len(a)) = a

\* the ids of a result of get_active_sessions
SummaryIds(summary) == {e.id : e \in summary}

\* caller t's close_session removes the entry of id in this step
Removes(t, id) == pc[t] = "cl_del" /\ pc'[t] # "cl_del" /\ loc[t].id = id

\* C19: the result of get_active_sessions holds every entry that is
\* registered and active when it returns and no entry that was inactive when
\* it was called; and a registered Session that is or becomes inactive keeps
\* its entry, under which get_session returns it, and the chunks of its
\* buffer, until a close_session removes the entry.
C19_ListOmitsInactiveOnly ==
    [][/\ \A t \in Threads :
             (res'[t] # res[t] /\ res'[t].op = "list" /\ res'[t].ok)
             => /\ \A id \in DOMAIN sessions :
                      active[sessions[id]] => id \in SummaryIds(res'[t].summary)
                /\ SummaryIds(res'[t].summary) \cap loc[t].was = {}
       /\ \A id \in DOMAIN sessions :
             ~active'[sessions[id]]
             => \/ /\ GetSession(id)' = sessions[id]
                   /\ Extends(output_buffer[sessions[id]],
                              output_buffer'[sessions[id]])
                \/ \E t \in Threads : Removes(t, id)]_vars

\* a list has returned an active session and not the registered one whose
\* child has died, which is inactive, not closed, and holds its chunks
C19_Witness ==
    \E t \in Threads, id \in DOMAIN sessions :
        /\ res[t].op = "list" /\ res[t].ok
        /\ res[t].summary # {}
        /\ id \notin SummaryIds(res[t].summary)
        /\ ~active[GetSession(id)]
        /\ pump[GetSession(id)] = "done"
        /\ process[GetSession(id)] # None
        /\ output_buffer[GetSession(id)] # << >>


\* the step taken is one of caller t inside cleanup_inactive_sessions
CleanupMoves(t) ==
    /\ pc'[t] # pc[t] \/ loc'[t] # loc[t]
    /\ loc[t].caller = "cleanup" \/ loc'[t].caller = "cleanup"

\* C20: cleanup_inactive_sessions returns with every entry that was inactive
\* when it was called closed and removed, and none of its steps changes the
\* entry, the flag, the handle, the buffer, the child or the signals sent of
\* a Session that is active.
C20_CleanupInactiveOnly ==
    [][\A t \in Threads :
          /\ (pc[t] = "cu_next" /\ loc[t].caller = "cleanup" /\ pc'[t] = "idle"
                 /\ res'[t].ok)
             => \A id \in loc[t].was :
                   /\ id \notin DOMAIN sessions'
                   /\ \A o \in 1..nobj :
                         session_id[o] = id => (~active'[o] /\ process'[o] = None)
          /\ CleanupMoves(t)
             => \A o \in 1..nobj :
                   active[o]
                   => /\ active'[o]
                      /\ process'[o] = process[o]
                      /\ output_buffer'[o] = output_buffer[o]
                      /\ proc'[o] = proc[o]
                      /\ signals'[o] = signals[o]
                      /\ \A id \in DOMAIN sessions :
                            sessions[id] = o => GetSession(id)' = o]_vars

\* cleanup_inactive_sessions is about to return: it has closed and removed
\* what was inactive, and a session that is active is registered
C20_Witness ==
    \E t \in Threads, id \in DOMAIN sessions :
        /\ pc[t] = "cu_next"
        /\ loc[t].caller = "cleanup"
        /\ loc[t].todo = << >>
        /\ loc[t].was # {}
        /\ loc[t].was \cap DOMAIN sessions = {}
        /\ active[GetSession(id)]
        /\ process[GetSession(id)] # None


\* C21: when close_all_sessions returns, nobody having created a session
\* meanwhile, the map is empty and every Session that was registered when it
\* was called is closed: its flag is false and its handle released.
C21_CloseAllEmpties ==
    [][\A t \in Threads :
          (/\ pc[t] = "cu_next" /\ loc[t].caller = "close_all"
           /\ pc'[t] = "idle" /\ res'[t].ok)
          => /\ DOMAIN sessions' = {}
             /\ \A id \in loc[t].was : \A o \in 1..nobj :
                   session_id[o] = id => (~active'[o] /\ process'[o] = None)]_vars

\* close_all_sessions is about to return, called with two sessions
\* registered
C21_Witness ==
    \E t \in Threads :
        /\ pc[t] = "cu_next"
        /\ loc[t].caller = "close_all"
        /\ loc[t].todo = << >>
        /\ Cardinality(loc[t].was) >= 2


PlainText(pieces) == Join(SelectSeq(pieces, LAMBDA p : p \in TextPieces))

\* C23: of a chunk made of plain text (here without white space), CSI
\* sequences and the listed literal sequences, the sanitizer returns the
\* plain text: every sequence is removed whole and the text is unchanged.
C23_SequencesRemoved ==
    (/\ clean_text # NotCleaned
     /\ \A k \in 1..Len(raw_text) : raw_text[k] \notin {<< SP >>, << LF >>})
    => clean_text = PlainText(raw_text)

\* C24: of a chunk without escape sequences and control characters the
\* sanitizer returns the same lines, each one the line of the chunk up to
\* the runs of spaces that become one space: nothing is removed at the
\* beginning or at the end of a line.
C24_PlainTextKept ==
    (/\ clean_text # NotCleaned
     /\ \A k \in 1..Len(raw_text) : raw_text[k] \in TextPieces)
    => LET given == SplitLines(Join(raw_text))
           cleaned == SplitLines(clean_text)
       IN  /\ Len(cleaned) = Len(given)
           /\ \A k \in 1..Len(given) :
                 CollapseSpaces(cleaned[k]) = CollapseSpaces(given[k])


\* C25: an unexpected error in an iteration of the pump does not end it:
\* the pump leaves its loop by a break only when the child is gone, and
\* otherwise the session stays active.
C25_ErrorsDoNotEndPump ==
    [][\A o \in Objs :
          (pump[o] # "exit" /\ pump'[o] = "exit") => proc[o] = "dead"]_vars


\* the terminal markers buffered for o, where nobody drains the buffer
Markers(o) == {k \in 1..Len(output_buffer[o]) : output_buffer[o][k] \in MarkerChunks}

\* C26: where nobody closes or drains, a session that the pump has made
\* inactive has a terminal marker in its buffer; once the pump has ended it
\* has exactly one, and the pump reads and appends no more.
C26_MarkerBeforeInactive ==
    /\ \A o \in 1..nobj :
          /\ (pump[o] # "off" /\ ~active[o]) => Markers(o) # {}
          /\ pump[o] = "done" => (~active[o] /\ Cardinality(Markers(o)) = 1)
    /\ \A o \in 1..nobj :
          pump[o] = "done" => ~ENABLED PumpStep(o)


\* C27: a poll response whose output holds the terminal marker of the
\* session reports the session inactive, however the poll and the pump
\* interleave.
C27_MarkerMeansInactive ==
    \A t \in Threads :
        (res[t].op = "poll" /\ res[t].ok /\ TextHasMarker(res[t].out))
        => ~res[t].act


\* C28: every read of the pump that returns data, white space included,
\* appends one chunk to the buffer: where the transport does not fail, a
\* pump that comes back from its read, the child being there, has read data,
\* and the buffer is one chunk longer.
C28_EveryReadBuffered ==
    [][\A o \in Objs :
          (pump[o] = "reading" /\ pump'[o] \notin {"reading", "exit"})
          => Len(output_buffer'[o]) = Len(output_buffer[o]) + 1]_vars


\* the pump of o is inside an iteration of its loop
MidIteration(o) == pump[o] \in {"alive", "read", "reading"}

\* C29: a close() that runs while the pump is inside an iteration leads,
\* under fair scheduling, to the child terminated, the handle released and
\* the pump out of its loop.
C29_CloseUnderPump ==
    \A o \in Objs :
        (CloseBegun(o) /\ MidIteration(o))
        ~> (proc[o] = "dead" /\ process[o] = None /\ pump[o] = "done")


\* a callable registered for o is called in this step
Called(o) ==
    \E cb \in CallbackIds :
        Len(delivered'[o][cb].got) > Len(delivered[o][cb].got)

\* C30: the chunk is in the buffer when the loop over the callbacks begins,
\* before any callable is called; a call, whether it returns or raises,
\* leaves the buffer alone and is followed by the next step of the loop;
\* the loop over, the pump goes on where it would have; and chunks leave
\* the buffer only by a clear_buffer.
C30_BufferingIndependent ==
    [][\A o \in Objs :
          /\ (pump[o] # "notify" /\ pump'[o] = "notify")
             => /\ output_buffer'[o] = Append(output_buffer[o], notify'[o].chunk)
                /\ ~Called(o)
          /\ Called(o)
             => /\ pump[o] = "notify" /\ pump'[o] = "notify"
                /\ notify'[o].pos > notify[o].pos
                /\ output_buffer'[o] = output_buffer[o]
          /\ (pump[o] = "notify" /\ pump'[o] # "notify")
             => pump'[o] = notify[o].ret
          /\ ~Extends(output_buffer[o], output_buffer'[o])
             => \E t \in Threads : Moves(t, "po_clear", "po_ret") /\ loc[t].obj = o]_vars

\* the first callable has raised, the second has been called with the chunk,
\* which is in the buffer
C30_Witness ==
    \E o \in Objs :
        /\ pump[o] = "notify"
        /\ notify[o].raised = 1
        /\ notify[o].pos = 3
        /\ \E cb \in CallbackIds :
              /\ callbacks[o][2] = cb
              /\ delivered[o][cb].got # << >>
              /\ delivered[o][cb].got[Len(delivered[o][cb].got)]
                    = << session_id[o], notify[o].chunk >>
        /\ output_buffer[o] = << notify[o].chunk >>


\* C33: what the sanitizer returns holds no character of the range 0..31
\* but newline (10) and tab (9).
C33_NoControlLeft ==
    clean_text # NotCleaned
    => \A k \in 1..Len(clean_text) :
          InRange(clean_text[k], 0, 31) => clean_text[k] \in {9, LF}


\* C31: with sessions created and none closed, the id a create_session call
\* returned leads, in the registry, to the Session whose process that call
\* spawned: no later or concurrent create_session replaces or drops the
\* entry.
C31_SpawnedStaysRegistered ==
    \A t \in Threads :
        (res[t].op = "create" /\ res[t].ok)
        => /\ res[t].id \in DOMAIN sessions
           /\ sessions[res[t].id] = res[t].obj


\* the caller t takes this step
Acts(t) == pc'[t] # pc[t] \/ loc'[t] # loc[t] \/ res'[t] # res[t]
\* the Session the operation of caller t is on
Target(t) == IF loc[t].obj # NoObj THEN loc[t].obj ELSE loc'[t].obj
\* the Session registered under its own id
Registered(o) ==
    session_id[o] \in DOMAIN sessions /\ sessions[session_id[o]] = o
\* what a Session holds
Fields(o) ==
    << active[o], output_buffer[o], callbacks[o], device_id[o], process[o],
       session_id[o] >>

\* C32: the active flag, the buffer, the callbacks, the device id, the
\* process handle and the registry entry of a registered session change only
\* in a step of its own pump or of an operation on that very session; and
\* the session id and the device id of a constructed session never change.
C32_SessionsIsolated ==
    [][/\ \A o \in 1..nobj :
             (Registered(o) /\ (Fields(o)' # Fields(o) \/ ~Registered(o)'))
             => \/ pump'[o] # pump[o]
                \/ \E t \in Threads : Acts(t) /\ Target(t) = o
       /\ \A o \in 1..nobj :
             session_id'[o] = session_id[o] /\ device_id'[o] = device_id[o]]_vars

\* the client has closed one session, now removed, while the other, resized
\* and with output in its buffer, is registered, active and holds its process
C32_Witness ==
    \E o, q \in 1..nobj :
        /\ o # q
        /\ res[Client].op = "close" /\ res[Client].obj = o /\ res[Client].ok
        /\ session_id[o] \notin DOMAIN sessions
        /\ process[o] = None /\ ~active[o]
        /\ Registered(q)
        /\ active[q] /\ process[q] # None
        /\ output_buffer[q] # << >>
        /\ winsize[q] # NoSize

=============================================================================
